---- MODULE Spec2Model ----
(***************************************************************************)
(* Verification model of the spatial engine of Warhammer40k_AI:            *)
(* Unit (roster, coherency parameters, placement solver, movement),        *)
(* Map (placement, occupancy), Game (turn / phase controller), the         *)
(* deployment click handler of the UI and the a_star pathfinder.           *)
(*                                                                         *)
(* Arithmetic.  The source works in inches with floats.  The model works   *)
(* in fixed point: one length unit is 0.1 inch (the step of the placement  *)
(* solver and the min_step of the pathfinder), so 2.0 inches is 20.        *)
(* Comparisons of Euclidean distances are made on squared distances,       *)
(* which is exact; a distance that the code uses as a number (a step       *)
(* size, a path length) is the integer square root (floor).                *)
(* Bases are CIRCULAR (BaseType.CIRCULAR): the footprint of a model at     *)
(* (x, y) is the closed disc of radius getRadius() around (x, y).          *)
(***************************************************************************)
EXTENDS Integers, Sequences, FiniteSets, TLC

VARIABLES
    cmp,        \* one call of Unit.calculate_model_positions: inputs, result
    roster,     \* one Unit's roster: models, models_lost, coherency parameters
    astar,      \* one call of a_star: the search state and the result
    world,      \* the units and the Map: models, positions, occupancy
    call,       \* the last call on the world: inputs, solver result, outcome
    game,       \* the Game: current player, turn, phase; calls of the phase
    pure        \* one call of a function of the geometry: inputs, result

vars == <<cmp, roster, astar, world, call, game, pure>>

(***************************************************************************)
(* Bounds of the model (not program constants).                            *)
(***************************************************************************)
\* Map(width, height): the battlefield size in inches.
MapWidth == 8
MapHeight == 8
\* Largest number of models of a unit.
MaxModels == 6
\* a_star(max_iterations): the iteration budget of one search.  The source's
\* default is 50000; the model searches with a smaller budget.
max_iterations == 12

(***************************************************************************)
(* Program constants, in tenths of an inch where they are lengths.         *)
(***************************************************************************)
\* Unit.update_coherency: self.coherency_distance = 2.0
coherency_distance == 20
\* Unit.calculate_model_positions: max_attempts = 100
max_attempts == 100
\* update_coherency: len(self.models) > 5 needs two neighbours
LargeUnitThreshold == 5
\* adaptive_step_size: min_step = 0.1 and max_step = 6.0
min_step == 1
max_step == 60

\* Base radii of the units of the model, in tenths of an inch: a 32 mm
\* round base (0.63 inch) and a 50 mm round base (0.98 inch).
Radii == {6, 10}

Min(a, b) == IF a <= b THEN a ELSE b
Max(a, b) == IF a >= b THEN a ELSE b
Abs(a) == IF a >= 0 THEN a ELSE -a
Sq(a) == a * a

\* calcs.get_dist compared against a bound: sqrt(dx^2 + dy^2) <= b, b >= 0.
DistLeq(dx, dy, b) == Sq(dx) + Sq(dy) <= Sq(b)

\* Base.set_model_height: model_height = min(radius) * 2.0
model_height(radius) == 2 * radius

(***************************************************************************)
(* The map: boundary and obstacles.                                        *)
(***************************************************************************)
\* Obstacle: an axis-aligned rectangular polygon with a terrain type and a
\* height (tenths of an inch).
Obstacles == { [x0 |-> 50, x1 |-> 60, y0 |-> 20, y1 |-> 60,
                terrain_type |-> "CRATER_AND_RUBBLE", height |-> 30] }

\* Squared distance from the point (x, y) to the rectangle of obstacle o.
RectDist2(x, y, o) ==
    LET dx == Max(Max(o.x0 - x, 0), x - o.x1)
        dy == Max(Max(o.y0 - y, 0), y - o.y1)
    IN  Sq(dx) + Sq(dy)

\* The disc of radius r at (x, y) intersects obstacle o (touching counts,
\* as shapely's intersects does).
FootprintIntersectsObstacle(x, y, r, o) == RectDist2(x, y, o) <= Sq(r)

\* Map.is_within_boundary(model, (x, y)): the footprint at (x, y) lies fully
\* inside the rectangle [0, width] x [0, height].
is_within_boundary(x, y, r) ==
    /\ x - r >= 0 /\ x + r <= 10 * MapWidth
    /\ y - r >= 0 /\ y + r <= 10 * MapHeight

\* Map.check_collision_with_obstacles(model, (x, y)).
check_collision_with_obstacles(x, y, r, obstacles) ==
    \E o \in obstacles : FootprintIntersectsObstacle(x, y, r, o)

\* Map.check_collision_with_other_units(model, (x, y)): others is the set of
\* <<x, y, r>> footprints of the models of the units that block this one.
check_collision_with_other_units(x, y, r, others) ==
    \E m \in others : DistLeq(x - m[1], y - m[2], r + m[3])

(***************************************************************************)
(* Unit.update_coherency and the placement solver.                         *)
(***************************************************************************)
\* A mutant of update_coherency: a unit of any size needs one neighbour.
update_coherency_small(n) == IF n = 1 THEN 0 ELSE 1

\* Unit.update_coherency: required_neighbors for a unit of n models.
update_coherency(n) ==
    IF n = 1 THEN 0
    ELSE IF n > LargeUnitThreshold THEN 2
    ELSE 1

\* A position is the tuple (x, y, z, facing) of the source.
Pos(x, y, z, facing) == <<x, y, z, facing>>

\* Unit._collides_with_unit_models(x, y, z, facing, positions), for a unit
\* whose models have base radius r.  The scan over positions stops at the
\* first position that decides: an elevation gap above model_height returns
\* False for the whole call (line 975-977), an overlap returns True.
RECURSIVE CollidesFrom(_, _, _, _, _, _)
CollidesFrom(x, y, z, r, positions, i) ==
    IF i > Len(positions) THEN FALSE
    ELSE LET pos == positions[i]
         IN  IF (z - pos[3]) > model_height(r) THEN FALSE
             ELSE IF DistLeq(x - pos[1], y - pos[2], 2 * r) THEN TRUE
             ELSE CollidesFrom(x, y, z, r, positions, i + 1)

collides_with_unit_models(x, y, z, r, positions) ==
    IF positions = <<>> THEN FALSE
    ELSE CollidesFrom(x, y, z, r, positions, 1)

\* A mutant of _is_coherent_within_unit: one neighbour is always enough.
is_coherent_within_unit_one(x, y, r, required_neighbors, positions) ==
    \/ Len(positions) = 0
    \/ \E i \in 1..Len(positions) :
          DistLeq(x - positions[i][1], y - positions[i][2],
                  2 * r + coherency_distance)

\* Unit._is_coherent_within_unit: at least current_neighbors_needed of the
\* already placed positions are within coherency_distance, edge to edge.
is_coherent_within_unit(x, y, r, required_neighbors, positions) ==
    LET current_neighbors_needed ==
            IF Len(positions) = 0 THEN 0
            ELSE IF Len(positions) = 1 THEN 1
            ELSE required_neighbors
        found_neighbors ==
            Cardinality({ i \in 1..Len(positions) :
                DistLeq(x - positions[i][1], y - positions[i][2],
                        2 * r + coherency_distance) })
    IN  \/ current_neighbors_needed = 0
        \/ found_neighbors >= current_neighbors_needed

\* Unit._is_valid_position.
is_valid_position(x, y, z, r, rn, env, placed_positions) ==
    /\ is_within_boundary(x, y, r)
    /\ ~check_collision_with_obstacles(x, y, r, env.obstacles)
    /\ ~check_collision_with_other_units(x, y, r, env.others)
    /\ ~collides_with_unit_models(x, y, z, r, placed_positions)
    /\ is_coherent_within_unit(x, y, r, rn, placed_positions)

\* The eight compass directions of _find_strategic_position, in its order.
directions == << <<0, 1>>, <<1, 1>>, <<1, 0>>, <<1, -1>>,
                 <<0, -1>>, <<-1, -1>>, <<-1, 0>>, <<-1, 1>> >>

\* np.arange(radius + 0.1, radius + coherency_distance, 0.1) has
\* coherency_distance - 1 elements: radius + 0.1, ..., radius + 1.9.
StepsPerDirection == coherency_distance - 1

\* Unit._find_strategic_position: the candidates around the most recently
\* placed position, direction by direction and nearest first, that pass
\* _is_valid_position.
find_strategic_position(r, rn, env, placed_positions) ==
    LET last == placed_positions[Len(placed_positions)]
        Cand(i) ==
            LET d == directions[((i - 1) \div StepsPerDirection) + 1]
                distance == r + 1 + ((i - 1) % StepsPerDirection)
            IN  Pos(last[1] + distance * d[1], last[2] + distance * d[2],
                    last[3], last[4])
        all == [i \in 1..(8 * StepsPerDirection) |-> Cand(i)]
        Valid(p) == is_valid_position(p[1], p[2], p[3], r, rn, env,
                                      placed_positions)
    IN  SelectSeq(all, Valid)

\* One pass of the while loop of calculate_model_positions for a model that
\* is not the first: the loop repeats the same deterministic search until
\* it places the model or attempts reaches max_attempts.
RECURSIVE PlaceAttempts(_, _, _, _, _, _)
PlaceAttempts(valid_positions, r, rn, env, positions, attempts) ==
    IF attempts >= max_attempts THEN <<>>
    ELSE IF valid_positions = <<>>
         THEN PlaceAttempts(valid_positions, r, rn, env, positions, attempts + 1)
    ELSE LET Ok(p) == /\ ~collides_with_unit_models(p[1], p[2], p[3], r, positions)
                      /\ is_coherent_within_unit(p[1], p[2], r, rn, positions)
             accepted == SelectSeq(valid_positions, Ok)
         IN  IF accepted # <<>> THEN Append(positions, Head(accepted))
             ELSE PlaceAttempts(valid_positions, r, rn, env, positions, attempts + 1)

\* Unit.calculate_model_positions(start_x, start_y, game_map,
\* seeded_positions) for a unit of n models of base radius r.  The result
\* is the list of positions, or <<>> when a model could not be placed.
RECURSIVE PlaceModels(_, _, _, _, _, _, _)
PlaceModels(i, n, r, rn, start, env, positions) ==
    IF i > n THEN positions
    ELSE IF positions = <<>>
         THEN PlaceModels(i + 1, n, r, rn, start, env,
                          <<Pos(start[1], start[2], 0, 0)>>)
    ELSE LET next == PlaceAttempts(find_strategic_position(r, rn, env, positions),
                                   r, rn, env, positions, 0)
         IN  IF next = <<>> THEN <<>>
             ELSE PlaceModels(i + 1, n, r, rn, start, env, next)

calculate_model_positions(n, r, rn, start, env, seeded_positions) ==
    PlaceModels(1, n, r, rn, start, env, seeded_positions)

(***************************************************************************)
(* utility/calcs.py: the a_star pathfinder.  A point is <<x, y>>.          *)
(***************************************************************************)
\* Integer square root (floor) by bisection: the greatest k in lo..hi with
\* k * k <= n.
RECURSIVE ISqrtBetween(_, _, _)
ISqrtBetween(n, lo, hi) ==
    IF lo >= hi THEN lo
    ELSE LET mid == (lo + hi + 1) \div 2
         IN  IF mid * mid <= n THEN ISqrtBetween(n, mid, hi)
             ELSE ISqrtBetween(n, lo, mid - 1)

\* The square roots of the squared lengths up to 200 * 200, tabulated.
SqrtTable == [n \in 0..40000 |-> ISqrtBetween(n, 0, 200)]

\* The length that get_dist returns for the squared length n.
ISqrt(n) == IF n <= 40000 THEN SqrtTable[n] ELSE ISqrtBetween(n, 200, 1023)

Sgn(a) == IF a > 0 THEN 1 ELSE IF a < 0 THEN -1 ELSE 0

\* get_dist(x_delta, y_delta).
get_dist(dx, dy) == ISqrt(Sq(dx) + Sq(dy))

\* heuristic(a, b).
heuristic(a, b) == get_dist(a[1] - b[1], a[2] - b[2])

\* distance_to_nearest_obstacle(point, obstacles, target): min over the
\* obstacles of polygon.distance(Point(point)); obstacles is not empty.
distance_to_nearest_obstacle(point, obstacles) ==
    LET nearest == CHOOSE o \in obstacles : \A o2 \in obstacles :
                      RectDist2(point[1], point[2], o)
                        <= RectDist2(point[1], point[2], o2)
    IN  ISqrt(RectDist2(point[1], point[2], nearest))

\* adaptive_step_size(point, obstacles, target) with safety_factor 0.5.
adaptive_step_size(point, obstacles) ==
    Max(min_step,
        Min(max_step, distance_to_nearest_obstacle(point, obstacles) \div 2))

\* One coordinate of goal_step: goal_direction[k] / goal_distance * step_size
\* for the component d of a direction of squared length d2.
GoalStep(d, step_size, d2) == Sgn(d) * ISqrt(Sq(d * step_size) \div d2)

\* step_size * 0.707.
Diagonal(step_size) == (step_size * 707) \div 1000

\* get_neighbors(current, obstacles, ellipse, goal): the candidate points in
\* the order of the source, filtered by the footprint test at the candidate.
get_neighbors(current, obstacles, r, goal) ==
    LET x == current[1]
        y == current[2]
        step_size == adaptive_step_size(current, obstacles)
        gx == goal[1] - x
        gy == goal[2] - y
        d2 == Sq(gx) + Sq(gy)
        diag == Diagonal(step_size)
        neighbors ==
            IF d2 <= Sq(step_size) THEN << goal >>
            ELSE << <<x + GoalStep(gx, step_size, d2),
                      y + GoalStep(gy, step_size, d2)>>,
                    <<x + step_size, y>>,
                    <<x - step_size, y>>,
                    <<x, y + step_size>>,
                    <<x, y - step_size>>,
                    <<x + diag, y + diag>>,
                    <<x - diag, y - diag>>,
                    <<x + diag, y - diag>>,
                    <<x - diag, y + diag>> >>
        valid(n) == ~ \E obs \in obstacles :
                        FootprintIntersectsObstacle(n[1], n[2], r, obs)
    IN  SelectSeq(neighbors, valid)

\* The heap order of open_set: tuples (f_score, (x, y)) compare
\* lexicographically.
HeapLess(a, b) ==
    \/ a[1] < b[1]
    \/ a[1] = b[1] /\ a[2] < b[2]
    \/ a[1] = b[1] /\ a[2] = b[2] /\ a[3] < b[3]

\* heapq.heappop(open_set): the least entry <<f, x, y>>.
HeapMin(open_set) ==
    CHOOSE e \in open_set : \A e2 \in open_set : e2 = e \/ HeapLess(e, e2)

\* The loop "while current in came_from": the nodes from current back to
\* the start, reversed.
RECURSIVE ReconstructPath(_, _)
ReconstructPath(came_from, current) ==
    IF current \in DOMAIN came_from
    THEN Append(ReconstructPath(came_from, came_from[current]), current)
    ELSE << >>

\* The loop over the neighbours of current (lines 202-209), from index i.
RECURSIVE Relax(_, _, _, _)
Relax(s, current, neighbors, i) ==
    IF i > Len(neighbors) THEN s
    ELSE LET neighbor == neighbors[i]
             tentative_g_score == s.g_score[current]
                                    + heuristic(current, neighbor)
             better == \/ neighbor \notin DOMAIN s.g_score
                       \/ tentative_g_score < s.g_score[neighbor]
             f == tentative_g_score + heuristic(neighbor, s.goal)
         IN  Relax(IF better
                   THEN [s EXCEPT
                           !.came_from = (neighbor :> current) @@ @,
                           !.g_score = (neighbor :> tentative_g_score) @@ @,
                           !.open_set = @ \cup
                               { <<f, neighbor[1], neighbor[2]>> }]
                   ELSE s,
                   current, neighbors, i + 1)

\* The goal test of a_star: the footprint at current contains the target
\* point, or current is within 0.1 of it.
GoalTest(current, goal, r) ==
    \/ DistLeq(current[1] - goal[1], current[2] - goal[2], r)
    \/ Sq(current[1] - goal[1]) + Sq(current[2] - goal[2]) < 1

\* The search state before the first iteration (lines 178-188).
a_star_begin(start, r, obstacles, goal) ==
    [pc |-> "search", start |-> start, r |-> r, obstacles |-> obstacles,
     goal |-> goal,
     open_set |-> { <<0, start[1], start[2]>> },
     came_from |-> << >>,
     g_score |-> (start :> 0),
     iterations |-> 0,
     path |-> << >>]

\* path[::-1] + [goal]: start, the nodes up to current, the exact goal.
a_star_result(s, current) ==
    << s.start >> \o ReconstructPath(s.came_from, current) \o << s.goal >>

\* The loop condition without the iteration limit.
loop_condition_unbounded(s) == s.open_set # {}

\* while open_set and iterations < max_iterations.
loop_condition(s) == s.open_set # {} /\ s.iterations < max_iterations

\* One evaluation of the loop condition of a_star and, when it holds, one
\* pass of the loop body.  pc "found": a path was returned; "none": None was
\* returned; "raised": min() of an empty obstacle list raised ValueError.
a_star_iteration(s) ==
    IF ~loop_condition(s)
    THEN [s EXCEPT !.pc = "none"]
    ELSE LET e == HeapMin(s.open_set)
             current == <<e[2], e[3]>>
             popped == [s EXCEPT !.open_set = @ \ {e}]
         IN  IF GoalTest(current, s.goal, s.r)
             THEN [popped EXCEPT !.pc = "found",
                                 !.path = a_star_result(s, current)]
             ELSE IF s.obstacles = {}
             THEN [popped EXCEPT !.pc = "raised"]
             ELSE [Relax(popped, current,
                         get_neighbors(current, s.obstacles, s.r, s.goal), 1)
                     EXCEPT !.iterations = @ + 1]

\* a_star(model, obstacles, target): the iterations up to the return.
RECURSIVE a_star_run(_)
a_star_run(s) == IF s.pc = "search" THEN a_star_run(a_star_iteration(s)) ELSE s

a_star(start, r, obstacles, goal) ==
    a_star_run(a_star_begin(start, r, obstacles, goal))

(***************************************************************************)
(* SpecSolver: calls of Unit.calculate_model_positions.  Init draws the    *)
(* inputs of one call (the unit's size and base, the anchor, the seeded    *)
(* positions); Solve applies the function.                                 *)
(***************************************************************************)
\* Anchor points (start_x, start_y): inside the map, on its edge, in a
\* corner, outside the boundary and inside the obstacle.
Anchors == { <<0, 0>>, <<6, 6>>, <<30, 30>>, <<40, 74>>, <<74, 74>>,
             <<-10, 30>>, <<55, 40>>, <<70, 10>> }

\* seeded_positions: none (the default), one seed, and two seeds of which
\* the second stands on raised ground (z = 3 inches).
SeedChoices == { <<>>,
                 << Pos(30, 25, 0, 0) >>,
                 << Pos(30, 25, 0, 0), Pos(30, 50, 30, 0) >> }

\* The environment of the solver: the map's obstacles and the footprints of
\* the other units that block this one.
SolverEnv == [obstacles |-> Obstacles, others |-> {}]

IdleRoster == [models |-> <<>>, models_lost |-> <<>>, next_id |-> 0,
               num_lost_models_this_round |-> 0,
               required_neighbors |-> 0, coherency_distance |-> 0]

IdleCmp == [pc |-> "idle", n |-> 0, r |-> 0, start |-> <<0, 0>>,
            seeded_positions |-> <<>>, positions |-> <<>>,
            i |-> 0, attempts |-> 0]

IdleAStar == [pc |-> "idle", start |-> <<0, 0>>, r |-> 0, obstacles |-> {},
              goal |-> <<0, 0>>, open_set |-> {}, came_from |-> << >>,
              g_score |-> << >>, iterations |-> 0, path |-> << >>]

\* The record of the last call: the operation, its unit, its inputs, the
\* unit before the call, the solver's result and the call's outcome
\* ("True", "False", or "raised" when the call ended with an exception).
IdleLast == [op |-> "none", unit |-> 0, before |-> << >>,
             potential_positions |-> << >>, placed |-> FALSE,
             path_distances |-> << >>, movement_range |-> 0,
             advance |-> FALSE, destination |-> << >>,
             result |-> "none"]

IdleWorld == [units |-> << >>, map_units |-> << >>,
              occupied_positions |-> {}, obstacles |-> {}]

IdlePure == [fn |-> "none", pc |-> "idle"]

IdleGame == [current_player_index |-> 0, turn |-> 0, phase |-> 0,
             do_phase_actions |-> 0, do_move_actions |-> << >>,
             result |-> "none"]

InitSolver ==
    /\ \E n \in 1..MaxModels, r \in Radii, a \in Anchors, s \in SeedChoices :
          cmp = [pc |-> "call", n |-> n, r |-> r, start |-> a,
                 seeded_positions |-> s, positions |-> <<>>,
                 i |-> 0, attempts |-> 0]
    /\ roster = IdleRoster
    /\ astar = IdleAStar
    /\ world = IdleWorld
    /\ call = IdleLast
    /\ game = IdleGame
    /\ pure = IdlePure

Solve ==
    /\ cmp.pc = "call"
    /\ cmp' = [cmp EXCEPT
                 !.pc = "returned",
                 !.positions = calculate_model_positions(
                     cmp.n, cmp.r, update_coherency(cmp.n), cmp.start,
                     SolverEnv, cmp.seeded_positions)]
    /\ UNCHANGED <<pure, roster, astar, world, call, game>>

NextSolver == Solve

SpecSolver == InitSolver /\ [][NextSolver]_vars

(***************************************************************************)
(* Claims about the placement solver (checked under SpecSolver).           *)
(***************************************************************************)
SolverReturned == cmp.pc = "returned" /\ cmp.positions # <<>>
SolverReturnedUnseeded == SolverReturned /\ cmp.seeded_positions = <<>>

\* The number of other positions of the configuration that are within
\* coherency_distance of position i, edge to edge, over all pairs.
NeighboursOf(positions, r, i) ==
    Cardinality({ j \in 1..Len(positions) :
        /\ j # i
        /\ DistLeq(positions[i][1] - positions[j][1],
                   positions[i][2] - positions[j][2],
                   2 * r + coherency_distance) })

\* C4: whenever calculate_model_positions returns a non-empty configuration
\* for a unit of N models, every one of the N positions has at least
\* required_neighbors other positions of the configuration within
\* coherency_distance edge to edge, counted over all pairs of the result.
C4_ConfigurationCoherent ==
    SolverReturnedUnseeded =>
        /\ Len(cmp.positions) = cmp.n
        /\ \A i \in 1..Len(cmp.positions) :
              NeighboursOf(cmp.positions, cmp.r, i) >= update_coherency(cmp.n)

\* C4 witness: a unit above the size threshold (two neighbours required)
\* with the large base has been placed completely.
C4_Witness ==
    /\ SolverReturnedUnseeded
    /\ cmp.n > LargeUnitThreshold
    /\ cmp.r = 10
    /\ Len(cmp.positions) = cmp.n

\* C5: whenever calculate_model_positions succeeds, every returned
\* footprint, the first model's at the anchor included, lies fully inside
\* the map boundary.
C5_ConfigurationInsideBoundary ==
    SolverReturnedUnseeded =>
        \A i \in 1..Len(cmp.positions) :
            is_within_boundary(cmp.positions[i][1], cmp.positions[i][2], cmp.r)

\* Two positions of a unit with base radius r intersect: the discs overlap
\* and neither stands more than a model height above the other.
FootprintsIntersect(p, q, r) ==
    /\ DistLeq(p[1] - q[1], p[2] - q[2], 2 * r)
    /\ Abs(p[3] - q[3]) <= model_height(r)

\* C6: whenever calculate_model_positions succeeds, no two footprints of
\* the returned configuration intersect, whatever the elevations of the
\* positions placed before.
C6_ConfigurationNoOverlap ==
    SolverReturned =>
        \A i, j \in 1..Len(cmp.positions) :
            i < j => ~FootprintsIntersect(cmp.positions[i], cmp.positions[j], cmp.r)

(***************************************************************************)
(* SpecPlace: one call of Unit.calculate_model_positions, an action per    *)
(* pass of its while loop.  cmp.i is the index of the model being placed   *)
(* and cmp.attempts the local variable attempts.                           *)
(***************************************************************************)
\* The loop condition without the limit on the attempts.
place_loop_condition_unbounded(c) == TRUE

\* while not placed and attempts < max_attempts, for a model not yet placed.
place_loop_condition(c) == c.attempts < max_attempts

\* positions = seeded_positions.copy() and the entry into the for loop.
InitPlace ==
    /\ \E n \in 1..MaxModels, r \in Radii, a \in Anchors, s \in SeedChoices :
          cmp = [pc |-> "loop", n |-> n, r |-> r, start |-> a,
                 seeded_positions |-> s, positions |-> s,
                 i |-> 1, attempts |-> 0]
    /\ roster = IdleRoster
    /\ astar = IdleAStar
    /\ world = IdleWorld
    /\ call = IdleLast
    /\ game = IdleGame
    /\ pure = IdlePure

\* One pass of the while loop for model cmp.i: the first model goes to the
\* anchor; for another model the candidates of _find_strategic_position are
\* tried, and the pass either places the model (the for loop goes on to the
\* next model with attempts = 0) or counts one more attempt.  PlaceAttempts
\* entered with its last attempt makes exactly one pass.
place_attempt ==
    /\ cmp.pc = "loop"
    /\ cmp.i <= cmp.n
    /\ place_loop_condition(cmp)
    /\ \E after \in
          { IF cmp.positions = << >>
            THEN << Pos(cmp.start[1], cmp.start[2], 0, 0) >>
            ELSE PlaceAttempts(
                    find_strategic_position(cmp.r, update_coherency(cmp.n),
                                            SolverEnv, cmp.positions),
                    cmp.r, update_coherency(cmp.n), SolverEnv, cmp.positions,
                    max_attempts - 1) } :
          cmp' = IF after # << >>
                 THEN [cmp EXCEPT !.positions = after, !.i = @ + 1,
                                  !.attempts = 0]
                 ELSE [cmp EXCEPT !.attempts = @ + 1]
    /\ UNCHANGED <<pure, roster, astar, world, call, game>>

\* if not placed: return [].
place_fail ==
    /\ cmp.pc = "loop"
    /\ cmp.i <= cmp.n
    /\ ~place_loop_condition(cmp)
    /\ cmp' = [cmp EXCEPT !.pc = "returned", !.positions = << >>]
    /\ UNCHANGED <<pure, roster, astar, world, call, game>>

\* return positions, after the last model.
place_return ==
    /\ cmp.pc = "loop"
    /\ cmp.i > cmp.n
    /\ cmp' = [cmp EXCEPT !.pc = "returned"]
    /\ UNCHANGED <<pure, roster, astar, world, call, game>>

NextPlace == place_attempt \/ place_fail \/ place_return

\* The call runs to its end: weak fairness of NextPlace written out, with
\* cmp.pc = "loop" for ENABLED <<NextPlace>>_vars.
SpecPlace ==
    /\ InitPlace /\ [][NextPlace]_vars
    /\ ([]<>(cmp.pc # "loop") \/ []<><<NextPlace>>_vars)

\* C12: calculate_model_positions terminates for every unit size, anchor
\* and map: no model gets more than max_attempts passes of the loop, a model
\* that is not placed after max_attempts passes makes the call return the
\* failure result, and every call returns.
C12_SolverTerminates ==
    /\ [](cmp.attempts <= max_attempts)
    /\ [][(cmp.pc = "loop" /\ cmp.i <= cmp.n /\ cmp.attempts >= max_attempts)
          => (cmp'.pc = "returned" /\ cmp'.positions = << >>)]_vars
    /\ <>(cmp.pc = "returned")

\* A call that gave a model max_attempts passes and returned the failure
\* result.
C12_Witness ==
    /\ cmp.pc = "returned"
    /\ cmp.attempts = max_attempts
    /\ cmp.positions = << >>

\* The loop returns what the function returns.
PlaceAgrees ==
    cmp.pc = "returned" =>
        cmp.positions = calculate_model_positions(
                            cmp.n, cmp.r, update_coherency(cmp.n), cmp.start,
                            SolverEnv, cmp.seeded_positions)

(***************************************************************************)
(* SpecBase: calls of Base.collidesWithBase on two circular bases.  A base *)
(* is the record of its fields x, y, z, radius and model_height.           *)
(***************************************************************************)
\* Base(BaseType.CIRCULAR, radius) moved to (x, y, z).
Base(x, y, z, radius) ==
    [x |-> x, y |-> y, z |-> z, radius |-> radius,
     model_height |-> model_height(radius)]

\* Base.collidesWithBase(other).  For two circular bases longestDistance is
\* the radius and shortestDistance is 0.0 when the discs touch or overlap.
collidesWithBase(self, other) ==
    LET dx == other.x - self.x
        dy == other.y - self.y
        dz == other.z - self.z
        max_dist == self.radius + other.radius
    IN  IF dz > self.model_height THEN FALSE
        ELSE IF ~DistLeq(dx, dy, max_dist) THEN FALSE
        ELSE DistLeq(dx, dy, self.radius + other.radius)

\* The elevations of the bases: the table, 1 inch up and 3 inches up.
Elevations == {0, 10, 30}

InitBase ==
    /\ \E ra \in Radii, rb \in Radii, za \in Elevations, zb \in Elevations,
          x \in {0, 10, 25}, y \in {0, 10} :
          pure = [fn |-> "collidesWithBase", pc |-> "call",
                  a |-> Base(30, 30, za, ra),
                  b |-> Base(30 + x, 30 + y, zb, rb),
                  ab |-> FALSE, ba |-> FALSE]
    /\ cmp = IdleCmp
    /\ roster = IdleRoster
    /\ astar = IdleAStar
    /\ world = IdleWorld
    /\ call = IdleLast
    /\ game = IdleGame

\* a.collidesWithBase(b) and b.collidesWithBase(a).
collide ==
    /\ pure.pc = "call"
    /\ pure' = [pure EXCEPT !.pc = "returned",
                            !.ab = collidesWithBase(pure.a, pure.b),
                            !.ba = collidesWithBase(pure.b, pure.a)]
    /\ UNCHANGED <<cmp, roster, astar, world, call, game>>

NextBase == collide

SpecBase == InitBase /\ [][NextBase]_vars

\* C13: Base.collidesWithBase is symmetric: for any two bases at any
\* positions and elevations a.collidesWithBase(b) equals
\* b.collidesWithBase(a).
C13_CollidesSymmetric ==
    pure.pc = "returned" => pure.ab = pure.ba

(***************************************************************************)
(* SpecConstruct: construction of a Base, Base(base_type, radius).         *)
(***************************************************************************)
BaseTypes == {"CIRCULAR", "ELLIPTICAL", "HULL"}

\* Radius components in tenths of an inch: negative, zero and positive.
RadiusValues == {-10, 0, 6, 10}

\* The radius arguments: a number, a tuple of two numbers, and arguments
\* of another format (a tuple of three numbers, a string).
RadiusArguments ==
    [kind : {"number"}, value : RadiusValues]
        \cup [kind : {"tuple"},
              value : { <<a, b>> : a \in RadiusValues, b \in RadiusValues }]
        \cup { [kind |-> "tuple", value |-> <<6, 6, 6>>],
               [kind |-> "str", value |-> "6"] }

\* Base._normalize_radius: the pair of radii, or the ValueError.
normalize_radius(radius) ==
    IF radius.kind = "number"
    THEN [raised |-> FALSE, radius |-> <<radius.value, radius.value>>]
    ELSE IF radius.kind = "tuple" /\ Len(radius.value) = 2
    THEN [raised |-> FALSE, radius |-> radius.value]
    ELSE [raised |-> TRUE, radius |-> << >>]

\* Base.__init__(base_type, radius): the object, or the exception.
Base__init__(base_type, radius) ==
    LET normal == normalize_radius(radius)
    IN  IF normal.raised THEN [raised |-> TRUE]
        ELSE [raised |-> FALSE, x |-> 0, y |-> 0, z |-> 0, facing |-> 0,
              base_type |-> base_type, radius |-> normal.radius,
              model_height |-> 2 * Min(normal.radius[1], normal.radius[2])]

InitConstruct ==
    /\ \E base_type \in BaseTypes, radius \in RadiusArguments :
          pure = [fn |-> "Base", pc |-> "call", base_type |-> base_type,
                  radius |-> radius, base |-> << >>]
    /\ cmp = IdleCmp
    /\ roster = IdleRoster
    /\ astar = IdleAStar
    /\ world = IdleWorld
    /\ call = IdleLast
    /\ game = IdleGame

\* Base(base_type, radius)
construct ==
    /\ pure.fn = "Base"
    /\ pure.pc = "call"
    /\ \E out \in {Base__init__(pure.base_type, pure.radius)} :
          pure' = [pure EXCEPT
                     !.pc = IF out.raised THEN "raised" ELSE "returned",
                     !.base = out]
    /\ UNCHANGED <<cmp, roster, astar, world, call, game>>

NextConstruct == construct

SpecConstruct == InitConstruct /\ [][NextConstruct]_vars

\* C16: constructing a Base with a radius that is zero or negative in
\* either component fails with an exception, for every base type: no Base
\* object with a non-positive radius exists.
C16_NoNonPositiveRadius ==
    (pure.fn = "Base" /\ pure.pc = "returned") =>
        /\ pure.base.radius[1] > 0
        /\ pure.base.radius[2] > 0

(***************************************************************************)
(* SpecTraverse and SpecEndMove: the terrain rules                         *)
(* can_traverse_freely(unit, obstacle) and                                 *)
(* can_end_move_on_terrain(model, obstacle).                               *)
(***************************************************************************)
\* The freely climbable height, 2 inches.
FREELY_CLIMBABLE_RANGE == 20

ObstacleType == {"CRATER_AND_RUBBLE", "DEBRIS_AND_STATUARY",
                 "HILLS_AND_SEALED_BUILDINGS", "WOODS", "RUINS"}

\* Obstacle heights below, at and above the freely climbable height.
ObstacleHeights == {10, 20, 30}

Keywords == {"Fly", "Infantry", "Beast", "Belisarius Cawl", "Imperium",
             "Primarch"}

\* The keyword properties of a Unit with the given keywords: the
\* attributes that the terrain rules may read.
Unit(keywords) ==
    [is_infantry |-> "Infantry" \in keywords,
     is_beast |-> "Beast" \in keywords,
     is_flying |-> "Fly" \in keywords,
     is_belisarius_cawl |-> "Belisarius Cawl" \in keywords,
     is_imperium_primarch |-> "Imperium" \in keywords
                                 /\ "Primarch" \in keywords]

\* can_traverse_freely(unit, obstacle): the value returned, or the
\* AttributeError of reading an attribute the unit does not have.
can_traverse_freely(unit, obstacle) ==
    IF "is_fly" \notin DOMAIN unit
    THEN [raised |-> TRUE, value |-> FALSE]
    ELSE [raised |-> FALSE,
          value |-> \/ unit["is_fly"]
                    \/ obstacle.height <= FREELY_CLIMBABLE_RANGE
                    \/ /\ obstacle.terrain_type = "RUINS"
                       /\ \/ unit.is_infantry
                          \/ unit.is_beast
                          \/ unit.is_belisarius_cawl
                          \/ unit.is_imperium_primarch]

InitTraverse ==
    /\ \E keywords \in SUBSET Keywords, terrain_type \in ObstacleType,
          height \in ObstacleHeights :
          pure = [fn |-> "can_traverse_freely", pc |-> "call",
                  keywords |-> keywords,
                  obstacle |-> [terrain_type |-> terrain_type,
                                height |-> height],
                  value |-> FALSE]
    /\ cmp = IdleCmp
    /\ roster = IdleRoster
    /\ astar = IdleAStar
    /\ world = IdleWorld
    /\ call = IdleLast
    /\ game = IdleGame

\* can_traverse_freely(unit, obstacle)
traverse ==
    /\ pure.fn = "can_traverse_freely"
    /\ pure.pc = "call"
    /\ \E out \in {can_traverse_freely(Unit(pure.keywords), pure.obstacle)} :
          pure' = [pure EXCEPT
                     !.pc = IF out.raised THEN "raised" ELSE "returned",
                     !.value = out.value]
    /\ UNCHANGED <<cmp, roster, astar, world, call, game>>

NextTraverse == traverse

SpecTraverse == InitTraverse /\ [][NextTraverse]_vars

\* C18: can_traverse_freely(unit, obstacle) returns, without raising, for
\* every unit and obstacle, and it returns True exactly when the unit has
\* the Fly keyword, or the obstacle's height is below the freely climbable
\* threshold, or the obstacle is RUINS and the unit is Infantry, Beast,
\* Belisarius Cawl or an Imperium Primarch.
C18_TraverseFreely ==
    (pure.fn = "can_traverse_freely" /\ pure.pc # "call") =>
        /\ pure.pc = "returned"
        /\ pure.value <=>
              \/ "Fly" \in pure.keywords
              \/ pure.obstacle.height < FREELY_CLIMBABLE_RANGE
              \/ /\ pure.obstacle.terrain_type = "RUINS"
                 /\ \/ "Infantry" \in pure.keywords
                    \/ "Beast" \in pure.keywords
                    \/ "Belisarius Cawl" \in pure.keywords
                    \/ {"Imperium", "Primarch"} \subseteq pure.keywords

\* An area of terrain large enough to stand in: the rectangle
\* (2.0, 2.0)-(6.0, 6.0).
TerrainArea(terrain_type, height) ==
    [x0 |-> 20, x1 |-> 60, y0 |-> 20, y1 |-> 60,
     terrain_type |-> terrain_type, height |-> height]

\* Where the model stands: in the middle of the area, inside the area
\* touching its edges, across its right edge, and outside.
TerrainStands == { <<40, 40>>, <<26, 26>>, <<55, 40>>, <<70, 40>> }

\* A Model: its parent unit and its Base.
Model(keywords, at, radius) ==
    [parent_unit |-> Unit(keywords),
     model_base |-> Base(at[1], at[2], 0, radius)]

\* base_overhangs_obstacle(model, obstacle): the obstacle polygon does not
\* contain the base shape at the model's position.
base_overhangs_obstacle(model, obstacle) ==
    ~ /\ model.model_base.x - model.model_base.radius >= obstacle.x0
      /\ model.model_base.x + model.model_base.radius <= obstacle.x1
      /\ model.model_base.y - model.model_base.radius >= obstacle.y0
      /\ model.model_base.y + model.model_base.radius <= obstacle.y1

\* A mutant of can_end_move_on_terrain: hills and sealed buildings permit
\* the end of a move whatever the overhang.
can_end_move_on_hills(model, obstacle) ==
    LET terrain == obstacle.terrain_type
        base_overhang == base_overhangs_obstacle(model, obstacle)
        unit == model.parent_unit
    IN  IF terrain \in {"CRATER_AND_RUBBLE", "DEBRIS_AND_STATUARY"}
        THEN FALSE
        ELSE IF terrain = "HILLS_AND_SEALED_BUILDINGS" THEN TRUE
        ELSE IF terrain = "WOODS" THEN TRUE
        ELSE IF terrain = "RUINS"
        THEN IF \/ unit.is_infantry \/ unit.is_beast
                \/ unit.is_belisarius_cawl \/ unit.is_imperium_primarch
             THEN ~base_overhang
             ELSE FALSE
        ELSE TRUE

\* can_end_move_on_terrain(model, obstacle)
can_end_move_on_terrain(model, obstacle) ==
    LET terrain == obstacle.terrain_type
        base_overhang == base_overhangs_obstacle(model, obstacle)
        unit == model.parent_unit
    IN  IF terrain \in {"CRATER_AND_RUBBLE", "DEBRIS_AND_STATUARY"}
        THEN FALSE
        ELSE IF terrain = "HILLS_AND_SEALED_BUILDINGS" THEN ~base_overhang
        ELSE IF terrain = "WOODS" THEN TRUE
        ELSE IF terrain = "RUINS"
        THEN IF \/ unit.is_infantry \/ unit.is_beast
                \/ unit.is_belisarius_cawl \/ unit.is_imperium_primarch
             THEN ~base_overhang
             ELSE FALSE
        ELSE TRUE

InitEndMove ==
    /\ \E keywords \in SUBSET Keywords, terrain_type \in ObstacleType,
          at \in TerrainStands, radius \in Radii :
          pure = [fn |-> "can_end_move_on_terrain", pc |-> "call",
                  keywords |-> keywords, at |-> at, radius |-> radius,
                  obstacle |-> TerrainArea(terrain_type, 30),
                  value |-> FALSE]
    /\ cmp = IdleCmp
    /\ roster = IdleRoster
    /\ astar = IdleAStar
    /\ world = IdleWorld
    /\ call = IdleLast
    /\ game = IdleGame

\* can_end_move_on_terrain(model, obstacle)
end_move ==
    /\ pure.fn = "can_end_move_on_terrain"
    /\ pure.pc = "call"
    /\ pure' = [pure EXCEPT
                  !.pc = "returned",
                  !.value = can_end_move_on_terrain(
                               Model(pure.keywords, pure.at, pure.radius),
                               pure.obstacle)]
    /\ UNCHANGED <<cmp, roster, astar, world, call, game>>

NextEndMove == end_move

SpecEndMove == InitEndMove /\ [][NextEndMove]_vars

\* The base of the call lies within the obstacle polygon of the call.
BaseWithinTerrain ==
    /\ pure.obstacle.x0 <= pure.at[1] - pure.radius
    /\ pure.at[1] + pure.radius <= pure.obstacle.x1
    /\ pure.obstacle.y0 <= pure.at[2] - pure.radius
    /\ pure.at[2] + pure.radius <= pure.obstacle.y1

\* C19: can_end_move_on_terrain returns False for CRATER_AND_RUBBLE and
\* DEBRIS_AND_STATUARY and True for WOODS, for every unit and overhang
\* state; for HILLS_AND_SEALED_BUILDINGS and RUINS it returns True only if
\* the model's base does not overhang the obstacle polygon at its position.
C19_EndMoveOnTerrain ==
    (pure.fn = "can_end_move_on_terrain" /\ pure.pc = "returned") =>
        /\ pure.obstacle.terrain_type
              \in {"CRATER_AND_RUBBLE", "DEBRIS_AND_STATUARY"}
              => ~pure.value
        /\ pure.obstacle.terrain_type = "WOODS" => pure.value
        /\ (/\ pure.obstacle.terrain_type
                  \in {"HILLS_AND_SEALED_BUILDINGS", "RUINS"}
            /\ pure.value) => BaseWithinTerrain

\* A call for hills with an overhanging base that returned False.
C19_Witness ==
    /\ pure.fn = "can_end_move_on_terrain"
    /\ pure.pc = "returned"
    /\ pure.obstacle.terrain_type = "HILLS_AND_SEALED_BUILDINGS"
    /\ ~BaseWithinTerrain
    /\ ~pure.value

(***************************************************************************)
(* SpecValid: Map.is_position_valid_for_unit(x, y, moving_unit) on a map   *)
(* that holds one other unit and, possibly, the moving unit itself.        *)
(***************************************************************************)
Factions == {"P1", "P2"}

\* The units of the call: unit 1 moves, unit 2 stands on the map.
MapUnit(id, faction, is_monster, is_vehicle, at, radius) ==
    [id |-> id, faction |-> faction, is_monster |-> is_monster,
     is_vehicle |-> is_vehicle, models |-> << Base(at[1], at[2], 0, radius) >>]

\* The positions asked about: two on the map and one beyond its right
\* edge.
AskedPositions == { <<20, 20>>, <<30, 20>>, <<10 * MapWidth + 5, 20>> }

\* The positions of the other unit's model.
OtherPositions == { <<20, 20>>, <<60, 60>> }

\* Map.units_collide(unit1, position, unit2): the body is `pass`, the call
\* returns None, which the caller's `if` takes for false.
units_collide(unit1, position, unit2) == FALSE

\* Map.is_position_valid_for_unit(x, y, moving_unit) on the map with the
\* sequence units.
RECURSIVE is_position_valid_from(_, _, _, _, _)
is_position_valid_from(k, units, x, y, moving_unit) ==
    IF k > Len(units) THEN TRUE
    ELSE LET other_unit == units[k]
         IN  IF other_unit.id = moving_unit.id
             THEN is_position_valid_from(k + 1, units, x, y, moving_unit)
             ELSE IF units_collide(moving_unit, <<x, y>>, other_unit)
             THEN IF other_unit.faction # moving_unit.faction THEN FALSE
                  ELSE IF /\ moving_unit.is_monster \/ moving_unit.is_vehicle
                          /\ other_unit.is_monster \/ other_unit.is_vehicle
                  THEN FALSE
                  ELSE is_position_valid_from(k + 1, units, x, y,
                                              moving_unit)
             ELSE is_position_valid_from(k + 1, units, x, y, moving_unit)

is_position_valid_for_unit(units, x, y, moving_unit) ==
    IF ~(0 <= x /\ x < 10 * MapWidth /\ 0 <= y /\ y < 10 * MapHeight)
    THEN FALSE
    ELSE is_position_valid_from(1, units, x, y, moving_unit)

InitValid ==
    /\ \E at \in AskedPositions, other_at \in OtherPositions,
          faction \in Factions, on_map \in BOOLEAN,
          big \in [1..2 -> [is_monster : BOOLEAN, is_vehicle : BOOLEAN]] :
          LET moving_unit == MapUnit(1, "P1", big[1].is_monster,
                                     big[1].is_vehicle, <<40, 40>>, 6)
              other_unit == MapUnit(2, faction, big[2].is_monster,
                                    big[2].is_vehicle, other_at, 6)
          IN  pure = [fn |-> "is_position_valid_for_unit", pc |-> "call",
                      units |-> IF on_map THEN <<moving_unit, other_unit>>
                                ELSE <<other_unit>>,
                      x |-> at[1], y |-> at[2],
                      moving_unit |-> moving_unit,
                      other_unit |-> other_unit,
                      value |-> FALSE]
    /\ cmp = IdleCmp
    /\ roster = IdleRoster
    /\ astar = IdleAStar
    /\ world = IdleWorld
    /\ call = IdleLast
    /\ game = IdleGame

\* game_map.is_position_valid_for_unit(x, y, moving_unit)
position_valid ==
    /\ pure.fn = "is_position_valid_for_unit"
    /\ pure.pc = "call"
    /\ pure' = [pure EXCEPT
                  !.pc = "returned",
                  !.value = is_position_valid_for_unit(pure.units, pure.x,
                                pure.y, pure.moving_unit)]
    /\ UNCHANGED <<cmp, roster, astar, world, call, game>>

NextValid == position_valid

SpecValid == InitValid /\ [][NextValid]_vars

\* The footprint of the moving unit at (x, y) overlaps a model of the
\* other unit.
OverlapsOther ==
    \E i \in 1..Len(pure.other_unit.models) :
       DistLeq(pure.x - pure.other_unit.models[i].x,
               pure.y - pure.other_unit.models[i].y,
               pure.moving_unit.models[1].radius
                  + pure.other_unit.models[i].radius)

\* Both units of the call are of Monster or Vehicle class.
BothLarge ==
    /\ pure.moving_unit.is_monster \/ pure.moving_unit.is_vehicle
    /\ pure.other_unit.is_monster \/ pure.other_unit.is_vehicle

\* C20: Map.is_position_valid_for_unit returns False whenever the moving
\* unit's footprint at (x, y) overlaps a model of a unit of a different
\* faction, and whenever it overlaps a unit of the same faction while both
\* units are Monster or Vehicle; for a position within the map it returns
\* True when every overlap is with a unit of the same faction and the two
\* are not both Monster or Vehicle.
C20_PositionValidForUnit ==
    (pure.fn = "is_position_valid_for_unit" /\ pure.pc = "returned") =>
        /\ (/\ OverlapsOther
            /\ pure.other_unit.faction # pure.moving_unit.faction)
              => ~pure.value
        /\ (/\ OverlapsOther
            /\ pure.other_unit.faction = pure.moving_unit.faction
            /\ BothLarge) => ~pure.value
        /\ (/\ 0 <= pure.x /\ pure.x < 10 * MapWidth
            /\ 0 <= pure.y /\ pure.y < 10 * MapHeight
            /\ OverlapsOther =>
                  /\ pure.other_unit.faction = pure.moving_unit.faction
                  /\ ~BothLarge) => pure.value

(***************************************************************************)
(* SpecPivot: calcs.get_pivot_cost(unit) and Map.calculate_pivot_cost(unit) *)
(* for a unit given by its keyword flags and the base of its first model. *)
(* Base sizes are in ten-thousandths of an inch.                           *)
(***************************************************************************)
\* convert_mm_to_inches(value) = round(value / 25.4, 4), for a value given
\* in tenths of a millimetre, in ten-thousandths of an inch.
convert_mm_to_inches(tenths_mm) == (tenths_mm * 10000 + 127) \div 254

\* The base sizes of the datasheets, in millimetres.
BaseSizesMM == {25, 32, 40, 60}

\* A unit for the pivot rules: the flags and the base of models[0], whose
\* base_size is the radius convert_mm_to_inches(mm / 2).
PivotUnit(flags, base_type, mm) ==
    [is_aircraft |-> flags.is_aircraft, is_monster |-> flags.is_monster,
     is_vehicle |-> flags.is_vehicle,
     has_circular_base |-> base_type = "CIRCULAR",
     base_size |-> convert_mm_to_inches(5 * mm)]

\* A mutant of Map.calculate_pivot_cost: the size of a round base is not
\* looked at.
calculate_pivot_cost_any_size(unit) ==
    IF unit.is_aircraft THEN 0
    ELSE IF (unit.is_monster \/ unit.is_vehicle) /\ ~unit.has_circular_base
    THEN 2
    ELSE IF ~unit.has_circular_base THEN 1
    ELSE 0

\* Map.calculate_pivot_cost(unit)
calculate_pivot_cost(unit) ==
    IF unit.is_aircraft THEN 0
    ELSE IF /\ unit.is_monster \/ unit.is_vehicle
            /\ \/ ~unit.has_circular_base
               \/ unit.base_size > convert_mm_to_inches(5 * 32)
    THEN 2
    ELSE IF ~unit.has_circular_base THEN 1
    ELSE 0

\* calcs.get_pivot_cost(unit) for a unit given as a record.
calcs_get_pivot_cost(unit) ==
    IF unit.is_aircraft THEN 0
    ELSE IF /\ unit.is_monster \/ unit.is_vehicle
            /\ \/ ~unit.has_circular_base
               \/ unit.base_size > convert_mm_to_inches(5 * 32)
    THEN 2
    ELSE IF ~unit.has_circular_base THEN 1
    ELSE 0

InitPivot ==
    /\ \E flags \in [is_aircraft : BOOLEAN, is_monster : BOOLEAN,
                     is_vehicle : BOOLEAN],
          base_type \in BaseTypes, mm \in BaseSizesMM :
          pure = [fn |-> "pivot_cost", pc |-> "call", flags |-> flags,
                  base_type |-> base_type, mm |-> mm,
                  get_pivot_cost |-> -1, calculate_pivot_cost |-> -1]
    /\ cmp = IdleCmp
    /\ roster = IdleRoster
    /\ astar = IdleAStar
    /\ world = IdleWorld
    /\ call = IdleLast
    /\ game = IdleGame

\* get_pivot_cost(unit) and game_map.calculate_pivot_cost(unit)
pivot_cost ==
    /\ pure.fn = "pivot_cost"
    /\ pure.pc = "call"
    /\ \E unit \in {PivotUnit(pure.flags, pure.base_type, pure.mm)} :
          pure' = [pure EXCEPT
                     !.pc = "returned",
                     !.get_pivot_cost = calcs_get_pivot_cost(unit),
                     !.calculate_pivot_cost = calculate_pivot_cost(unit)]
    /\ UNCHANGED <<cmp, roster, astar, world, call, game>>

NextPivot == pivot_cost

SpecPivot == InitPivot /\ [][NextPivot]_vars

\* The unit of the call is a Monster or Vehicle whose base is non-circular
\* or larger than a 32 mm round base.
LargePivotingBase ==
    /\ pure.flags.is_monster \/ pure.flags.is_vehicle
    /\ pure.base_type # "CIRCULAR" \/ pure.mm > 32

\* C21: the pivot cost is 0 for an Aircraft unit, 2 for a non-aircraft
\* Monster or Vehicle whose base is non-circular or larger than a 32 mm
\* round base, 1 for any other unit with a non-circular base and 0
\* otherwise; calcs.get_pivot_cost and Map.calculate_pivot_cost return the
\* same value.
C21_PivotCost ==
    (pure.fn = "pivot_cost" /\ pure.pc = "returned") =>
        /\ pure.get_pivot_cost = pure.calculate_pivot_cost
        /\ pure.calculate_pivot_cost =
              IF pure.flags.is_aircraft THEN 0
              ELSE IF LargePivotingBase THEN 2
              ELSE IF pure.base_type # "CIRCULAR" THEN 1
              ELSE 0

\* A Vehicle that is no Aircraft on a 40 mm round base, with pivot cost 2.
C21_Witness ==
    /\ pure.fn = "pivot_cost"
    /\ pure.pc = "returned"
    /\ pure.flags.is_vehicle
    /\ ~pure.flags.is_aircraft
    /\ pure.base_type = "CIRCULAR"
    /\ pure.mm = 40
    /\ pure.calculate_pivot_cost = 2

(***************************************************************************)
(* SpecFacing: Base.set_facing and Model.set_location on one model.        *)
(* Angles are in degrees; a full circle, 2 pi, is DEGREES_IN_CIRCLE.       *)
(***************************************************************************)
DEGREES_IN_CIRCLE == 360

\* The facings passed by callers: negative, zero, inside the circle, a
\* full circle and more than a full circle.
Facings == {-90, 0, 90, 360, 450}

\* The locations passed to set_location.
Locations == { <<x, y>> : x \in {10, 20, 30, 40}, y \in {10, 20, 30} }

\* Base.set_facing(facing) on the base b.
set_facing_base(b, facing) == [b EXCEPT !.facing = facing]

\* Model.set_location(x, y, z, facing) on the base b of the model.
set_location_base(b, x, y, z, facing) ==
    [b EXCEPT !.x = x, !.y = y, !.z = z, !.facing = facing]

\* Base.__init__: at the origin, facing 0.0.
InitFacing ==
    /\ pure = [fn |-> "Model", pc |-> "idle",
               model_base |-> [x |-> 0, y |-> 0, z |-> 0, facing |-> 0]]
    /\ cmp = IdleCmp
    /\ roster = IdleRoster
    /\ astar = IdleAStar
    /\ world = IdleWorld
    /\ call = IdleLast
    /\ game = IdleGame

\* model.model_base.set_facing(facing)
set_facing ==
    /\ pure.fn = "Model"
    /\ \E facing \in Facings :
          pure' = [pure EXCEPT
                     !.pc = "set_facing",
                     !.model_base = set_facing_base(@, facing)]
    /\ UNCHANGED <<cmp, roster, astar, world, call, game>>

\* model.set_location(x, y, z, facing)
set_location ==
    /\ pure.fn = "Model"
    /\ \E at \in Locations, facing \in Facings :
          pure' = [pure EXCEPT
                     !.pc = "set_location",
                     !.model_base = set_location_base(@, at[1], at[2], 0,
                                                      facing)]
    /\ UNCHANGED <<cmp, roster, astar, world, call, game>>

NextFacing == set_facing \/ set_location

SpecFacing == InitFacing /\ [][NextFacing]_vars

\* C22: after any sequence of Base.set_facing and Model.set_location calls
\* the facing of the base lies in [0, 2 pi): every value written to it is
\* normalized into that interval.
C22_FacingNormalized ==
    pure.fn = "Model" =>
        /\ 0 <= pure.model_base.facing
        /\ pure.model_base.facing < DEGREES_IN_CIRCLE

(***************************************************************************)
(* SpecRoster: one Unit's roster under Unit.add_model, Unit.remove_model   *)
(* and Unit.configure_models.  A model is its id (Model._id); new models   *)
(* get fresh ids.                                                          *)
(***************************************************************************)
\* The number of model ids the roster machine hands out (uuid4 is unbounded).
MaxModelIds == 7

\* Unit._parse_unit_composition: one composition entry "1-MaxModels".
unit_composition == [min_size |-> 1, max_size |-> MaxModels]

\* Unit._create_models: the number of models created for a quantity.
create_models_count(quantity) ==
    Min(unit_composition.max_size, Max(unit_composition.min_size, quantity))

\* Fresh models with ids first_id + 1 .. first_id + count.
NewModels(first_id, count) == [i \in 1..count |-> first_id + i]

\* The sequence seq without its element at index i (list.remove).
RemoveAt(seq, i) == [j \in 1..(Len(seq) - 1) |-> IF j < i THEN seq[j] ELSE seq[j + 1]]

\* The tail call self.update_coherency() of add_model, remove_model and
\* configure_models, on the roster record r.
roster_update_coherency(r) ==
    [r EXCEPT !.coherency_distance = coherency_distance,
              !.required_neighbors = update_coherency(Len(r.models))]

\* Unit.__init__: the models of the datasheet, models_lost empty, then
\* initialize_round() and update_coherency().
InitRoster ==
    /\ \E quantity \in 1..MaxModels :
          roster = roster_update_coherency(
                     [models |-> NewModels(0, create_models_count(quantity)),
                      models_lost |-> <<>>,
                      next_id |-> create_models_count(quantity),
                      num_lost_models_this_round |-> 0,
                      required_neighbors |-> 0,
                      coherency_distance |-> 0])
    /\ cmp = IdleCmp
    /\ astar = IdleAStar
    /\ world = IdleWorld
    /\ call = IdleLast
    /\ game = IdleGame
    /\ pure = IdlePure

\* Unit.add_model(model) with a model that is not in self.models.
add_model ==
    /\ roster.next_id < MaxModelIds
    /\ Len(roster.models) < MaxModels
    /\ roster' = roster_update_coherency(
                   [roster EXCEPT !.models = Append(@, roster.next_id + 1),
                                  !.next_id = @ + 1])
    /\ UNCHANGED <<pure, cmp, astar, world, call, game>>

\* Unit.remove_model(model) with a model of self.models.
remove_model ==
    /\ \E i \in 1..Len(roster.models) :
          roster' = roster_update_coherency(
                      [roster EXCEPT
                         !.num_lost_models_this_round = @ + 1,
                         !.models_lost = Append(@, roster.models[i]),
                         !.models = RemoveAt(@, i)])
    /\ UNCHANGED <<pure, cmp, astar, world, call, game>>

\* Unit.configure_models(count, wargear): the models are created anew.
configure_models ==
    /\ \E count \in 0..MaxModels :
          /\ roster.next_id + create_models_count(count) <= MaxModelIds
          /\ roster' = roster_update_coherency(
                         [roster EXCEPT
                            !.models = NewModels(roster.next_id,
                                                 create_models_count(count)),
                            !.next_id = @ + create_models_count(count)])
    /\ UNCHANGED <<pure, cmp, astar, world, call, game>>

NextRoster == add_model \/ remove_model \/ configure_models

SpecRoster == InitRoster /\ [][NextRoster]_vars

\* C7: after any sequence of add_model, remove_model and configure_models
\* calls the coherency parameters fit the current model count:
\* required_neighbors is 0 for exactly one model, 2 for more than 5 models
\* and 1 otherwise, and coherency_distance is 2.0 inches.
C7_CoherencyMatchesModelCount ==
    /\ roster.coherency_distance = 20
    /\ roster.required_neighbors =
         (IF Len(roster.models) = 1 THEN 0
          ELSE IF Len(roster.models) > 5 THEN 2
          ELSE 1)

\* C7 witness: a roster that was above the threshold has lost models and is
\* back in the one-neighbour range.
C7_Witness ==
    /\ Len(roster.models_lost) >= 2
    /\ Len(roster.models) \in 2..5
    /\ roster.next_id > 5
    /\ roster.required_neighbors = 1

(***************************************************************************)
(* SpecDamage: Model.take_damage on the models of one unit.  A model is    *)
(* the record of its id and its wounds; roster.damage records the last     *)
(* call.                                                                   *)
(***************************************************************************)
\* The wounds characteristic of the datasheets and the amounts of damage.
MaxWounds == 2
Amounts == 0..(MaxWounds + 1)
\* The largest squad that takes damage.
MaxSquad == 3

\* A mutant of Model.is_alive: a model at 0 wounds is alive.
is_alive_at_zero(wounds) == wounds >= 0

\* Model.is_alive.
is_alive(wounds) == wounds > 0

\* The index of the model with the given id in models (list.remove finds
\* it by identity).
IndexOf(models, id) == CHOOSE i \in 1..Len(models) : models[i].id = id

\* Unit.remove_model(model, fleed) on the roster record r.
unit_remove_model(r, model) ==
    roster_update_coherency(
        [r EXCEPT !.num_lost_models_this_round = @ + 1,
                  !.models_lost = Append(@, model),
                  !.models = RemoveAt(@, IndexOf(@, model.id))])

\* Model.take_damage(amount, is_mortal) on the model at index i of the
\* unit: the roster afterwards and whether the call raised.
take_damage_result(r, i, amount, is_mortal) ==
    LET hurt == [r.models[i] EXCEPT !.wounds = @ - amount]
        wounded == [r EXCEPT !.models[i] = hurt]
    IN  IF ~is_alive(hurt.wounds)
        THEN [roster |-> unit_remove_model(wounded, hurt),
              raised |-> is_mortal /\ Abs(hurt.wounds) > 0]
        ELSE [roster |-> wounded, raised |-> FALSE]

NoDamage == [model |-> 0, amount |-> 0, before |-> << >>,
             lost_before |-> << >>, result |-> "none"]

\* Unit.__init__ for a datasheet with W wounds per model.
InitDamage ==
    /\ \E quantity \in 1..MaxSquad, W \in 1..MaxWounds :
          roster = roster_update_coherency(
                     [models |-> [i \in 1..create_models_count(quantity) |->
                                     [id |-> i, wounds |-> W]],
                      models_lost |-> <<>>,
                      next_id |-> create_models_count(quantity),
                      num_lost_models_this_round |-> 0,
                      required_neighbors |-> 0,
                      coherency_distance |-> 0,
                      damage |-> NoDamage])
    /\ cmp = IdleCmp
    /\ astar = IdleAStar
    /\ world = IdleWorld
    /\ call = IdleLast
    /\ game = IdleGame
    /\ pure = IdlePure

\* model.take_damage(amount, is_mortal) for a model of the unit.
take_damage ==
    /\ \E i \in 1..Len(roster.models), amount \in Amounts,
          is_mortal \in BOOLEAN :
          \E out \in {take_damage_result(roster, i, amount, is_mortal)} :
             roster' = [out.roster EXCEPT
                          !.damage = [model |-> roster.models[i].id,
                                      amount |-> amount,
                                      before |-> roster.models,
                                      lost_before |-> roster.models_lost,
                                      result |-> IF out.raised THEN "raised"
                                                 ELSE "returned"]]
    /\ UNCHANGED <<pure, cmp, astar, world, call, game>>

NextDamage == take_damage

SpecDamage == InitDamage /\ [][NextDamage]_vars

\* The model the last take_damage call was made on, as it was before.
DamagedBefore ==
    roster.damage.before[IndexOf(roster.damage.before, roster.damage.model)]

\* C14: after Model.take_damage(n) on a model of a unit: if n is at least
\* the model's wounds, exactly that model has left unit.models (one model
\* fewer, the others in place) and it is the last of unit.models_lost;
\* otherwise unit.models holds the same models, the others unchanged, and
\* the model's wounds are exactly n lower.
C14_TakeDamage ==
    roster.damage.result # "none" =>
        LET before == roster.damage.before
            i == IndexOf(before, roster.damage.model)
            n == roster.damage.amount
        IN  IF n >= before[i].wounds
            THEN /\ Len(roster.models) = Len(before) - 1
                 /\ \A j \in 1..Len(roster.models) :
                       roster.models[j] = before[IF j < i THEN j ELSE j + 1]
                 /\ Len(roster.models_lost)
                       = Len(roster.damage.lost_before) + 1
                 /\ roster.models_lost[Len(roster.models_lost)].id
                       = roster.damage.model
            ELSE /\ Len(roster.models) = Len(before)
                 /\ \A j \in 1..Len(before) :
                       roster.models[j] =
                          IF j = i
                          THEN [before[j] EXCEPT !.wounds = @ - n]
                          ELSE before[j]
                 /\ roster.models_lost = roster.damage.lost_before

\* A call that took a model's last wounds, in a unit that keeps models.
C14_Witness ==
    /\ roster.damage.result # "none"
    /\ roster.damage.amount >= DamagedBefore.wounds
    /\ Len(roster.models) >= 1
    /\ Len(roster.models_lost) >= 2

(***************************************************************************)
(* SpecWounds: Model.take_damage, Model.heal, Model.flee,                  *)
(* Unit.remove_model and Unit.add_model on one unit and its models.  A     *)
(* model is the record of its id, its wounds and its base wounds.          *)
(***************************************************************************)
\* The models the unit is created with, the most models it is given and
\* the most entries of models_lost that are followed.
StartingModels == 2
MaxRoster == 3
MaxLost == 2

\* A model is one object: every entry of unit.models and unit.models_lost
\* that refers to it shows the wounds it has now.
SameObject(r, model) ==
    [r EXCEPT
        !.models = [i \in 1..Len(@) |->
                      IF @[i].id = model.id THEN model ELSE @[i]],
        !.models_lost = [k \in 1..Len(@) |->
                           IF @[k].id = model.id THEN model ELSE @[k]]]

\* Model.heal(amount): the model afterwards.
heal_result(model, amount) ==
    [model EXCEPT !.wounds = Min(model.base_wounds, model.wounds + amount)]

\* Unit.add_model(model) on the roster record r: the assertion that the
\* model is not in unit.models, then the append.
unit_add_model(r, model) ==
    IF \E i \in 1..Len(r.models) : r.models[i].id = model.id
    THEN [roster |-> r, raised |-> TRUE]
    ELSE [roster |-> roster_update_coherency(
                        [r EXCEPT !.models = Append(@, model)]),
          raised |-> FALSE]

\* Unit.__init__ for a datasheet with W wounds per model.
InitWounds ==
    /\ \E W \in 1..MaxWounds :
          roster = roster_update_coherency(
                     [models |-> [i \in 1..StartingModels |->
                                     [id |-> i, wounds |-> W,
                                      base_wounds |-> W]],
                      models_lost |-> <<>>,
                      next_id |-> StartingModels,
                      num_lost_models_this_round |-> 0,
                      required_neighbors |-> 0,
                      coherency_distance |-> 0])
    /\ cmp = IdleCmp
    /\ astar = IdleAStar
    /\ world = IdleWorld
    /\ call = IdleLast
    /\ game = IdleGame
    /\ pure = IdlePure

\* model.take_damage(amount, is_mortal) for a model in unit.models.
wounds_take_damage ==
    /\ Len(roster.models_lost) < MaxLost
    /\ \E i \in 1..Len(roster.models), amount \in Amounts,
          is_mortal \in BOOLEAN :
          roster' = SameObject(
              take_damage_result(roster, i, amount, is_mortal).roster,
              [roster.models[i] EXCEPT !.wounds = @ - amount])
    /\ UNCHANGED <<pure, cmp, astar, world, call, game>>

\* model.heal(amount) for a model in unit.models.
wounds_heal ==
    /\ \E i \in 1..Len(roster.models), amount \in Amounts :
          roster' = SameObject(roster, heal_result(roster.models[i], amount))
    /\ UNCHANGED <<pure, cmp, astar, world, call, game>>

\* model.flee() for a model in unit.models.
wounds_flee ==
    /\ Len(roster.models_lost) < MaxLost
    /\ \E i \in 1..Len(roster.models) :
          roster' = unit_remove_model(roster, roster.models[i])
    /\ UNCHANGED <<pure, cmp, astar, world, call, game>>

\* unit.remove_model(model) for a model in unit.models.
wounds_remove_model ==
    /\ Len(roster.models_lost) < MaxLost
    /\ \E i \in 1..Len(roster.models), fleed \in BOOLEAN :
          roster' = unit_remove_model(roster, roster.models[i])
    /\ UNCHANGED <<pure, cmp, astar, world, call, game>>

\* unit.add_model(model) for a new model or for a model the unit has lost;
\* an AssertionError leaves the unit as it was.
wounds_add_model ==
    /\ \E model \in
            { roster.models_lost[k] : k \in 1..Len(roster.models_lost) }
            \cup { m \in { [id |-> roster.next_id + 1,
                             wounds |-> W, base_wounds |-> W] :
                             W \in 1..MaxWounds } :
                      roster.next_id < MaxRoster } :
          \E out \in {unit_add_model(roster, model)} :
             roster' = [out.roster EXCEPT
                          !.next_id = Max(@, model.id)]
    /\ UNCHANGED <<pure, cmp, astar, world, call, game>>

NextWounds ==
    \/ wounds_take_damage
    \/ wounds_heal
    \/ wounds_flee
    \/ wounds_remove_model
    \/ wounds_add_model

SpecWounds == InitWounds /\ [][NextWounds]_vars

\* How often the model with the given id is in the list.
TimesIn(models, id) ==
    Cardinality({ k \in 1..Len(models) : models[k].id = id })

\* C30: every model in unit.models has 0 < wounds <= base wounds,
\* unit.models and unit.models_lost are disjoint, and every model whose
\* wounds are 0 or less is in models_lost exactly once.
C30_ModelsAliveAndLostDisjoint ==
    /\ \A i \in 1..Len(roster.models) :
          /\ roster.models[i].wounds > 0
          /\ roster.models[i].wounds <= roster.models[i].base_wounds
          /\ TimesIn(roster.models_lost, roster.models[i].id) = 0
    /\ \A k \in 1..Len(roster.models_lost) :
          roster.models_lost[k].wounds <= 0 =>
             TimesIn(roster.models_lost, roster.models_lost[k].id) = 1

(***************************************************************************)
(* SpecAStar: one call of a_star, an action per loop iteration.            *)
(***************************************************************************)
\* Starting points of the mover (model_base.x, model_base.y); the last one
\* lies inside the obstacle, where no neighbour is valid.
AStarStarts == { <<40, 30>>, <<39, 30>>, <<20, 40>>, <<30, 10>>, <<55, 40>> }

\* Targets: next to the obstacle, in open ground, behind the obstacle and
\* inside the obstacle.
AStarGoals == { <<45, 30>>, <<49, 30>>, <<20, 10>>, <<30, 40>>, <<70, 40>>,
                <<55, 40>> }

InitAStar ==
    /\ \E start \in AStarStarts, goal \in AStarGoals, r \in Radii,
          obstacles \in {Obstacles, {}} :
          astar = a_star_begin(start, r, obstacles, goal)
    /\ cmp = IdleCmp
    /\ roster = IdleRoster
    /\ world = IdleWorld
    /\ call = IdleLast
    /\ game = IdleGame
    /\ pure = IdlePure

a_star_step ==
    /\ astar.pc = "search"
    /\ astar' = a_star_iteration(astar)
    /\ UNCHANGED <<pure, cmp, roster, world, call, game>>

NextAStar == a_star_step

SpecAStar == InitAStar /\ [][NextAStar]_vars

\* The call runs to its end: a_star is a plain loop that nothing suspends.
\* This is weak fairness of a_star_step written out, with astar.pc =
\* "search" for ENABLED <<a_star_step>>_vars.
SpecAStarLive ==
    SpecAStar /\ ([]<>(astar.pc # "search") \/ []<><<a_star_step>>_vars)

\* C11: a_star always terminates: it makes at most max_iterations
\* expansions, and when the limit is reached or the open set is empty
\* without the goal test having succeeded the call returns None; it does
\* not raise then.
C11_AStarTerminates ==
    /\ [](astar.iterations <= max_iterations)
    /\ [][(astar.pc = "search"
           /\ (astar.open_set = {} \/ astar.iterations >= max_iterations))
          => astar'.pc = "none"]_vars
    /\ <>(astar.pc \in {"found", "none", "raised"})

\* A call that used up its iterations and returned None.
C11_Witness ==
    /\ astar.pc = "none"
    /\ astar.iterations = max_iterations
    /\ astar.open_set # {}

\* Orientation of the point c against the directed line a -> b.
Orient(a, b, c) ==
    Sgn((b[1] - a[1]) * (c[2] - a[2]) - (b[2] - a[2]) * (c[1] - a[1]))

\* The closed segments a-b and c-d have a common point.
SegmentsIntersect(a, b, c, d) ==
    /\ Orient(c, d, a) * Orient(c, d, b) <= 0
    /\ Orient(a, b, c) * Orient(a, b, d) <= 0
    /\ Max(Min(a[1], b[1]), Min(c[1], d[1])) <= Min(Max(a[1], b[1]), Max(c[1], d[1]))
    /\ Max(Min(a[2], b[2]), Min(c[2], d[2])) <= Min(Max(a[2], b[2]), Max(c[2], d[2]))

\* The point c is within distance r of the segment p-q.
PointNearSegment(c, p, q, r) ==
    LET vx == q[1] - p[1]
        vy == q[2] - p[2]
        wx == c[1] - p[1]
        wy == c[2] - p[2]
        dot == wx * vx + wy * vy
        len2 == Sq(vx) + Sq(vy)
    IN  IF len2 = 0 \/ dot <= 0 THEN Sq(wx) + Sq(wy) <= Sq(r)
        ELSE IF dot >= len2 THEN Sq(c[1] - q[1]) + Sq(c[2] - q[2]) <= Sq(r)
        ELSE Sq(wx * vy - wy * vx) <= Sq(r) * len2

\* The footprint of radius r swept along the segment p-q intersects the
\* obstacle o: the segment comes within r of the rectangle.
SweptFootprintIntersects(p, q, r, o) ==
    LET c1 == <<o.x0, o.y0>>
        c2 == <<o.x1, o.y0>>
        c3 == <<o.x1, o.y1>>
        c4 == <<o.x0, o.y1>>
    IN  \/ FootprintIntersectsObstacle(p[1], p[2], r, o)
        \/ FootprintIntersectsObstacle(q[1], q[2], r, o)
        \/ \E c \in {c1, c2, c3, c4} : PointNearSegment(c, p, q, r)
        \/ SegmentsIntersect(p, q, c1, c2)
        \/ SegmentsIntersect(p, q, c2, c3)
        \/ SegmentsIntersect(p, q, c3, c4)
        \/ SegmentsIntersect(p, q, c4, c1)

\* C10: every path returned by a_star is collision-free: the mover's
\* footprint swept along every segment between consecutive waypoints, the
\* last segment to the appended goal included, intersects no obstacle.
C10_PathCollisionFree ==
    astar.pc = "found" =>
        \A i \in 1..(Len(astar.path) - 1) : \A o \in astar.obstacles :
            ~ SweptFootprintIntersects(astar.path[i], astar.path[i + 1],
                                       astar.r, o)

(***************************************************************************)
(* SpecSimplify: simplify_path(path, obstacles, ellipse) for the footprint *)
(* of a round base.                                                        *)
(***************************************************************************)
\* tolerance = 0.1
tolerance == 1

\* test_line.intersects(obs.polygon): the segment p-q has a point in the
\* rectangle of obstacle o.
LineIntersectsObstacle(p, q, o) ==
    LET c1 == <<o.x0, o.y0>>
        c2 == <<o.x1, o.y0>>
        c3 == <<o.x1, o.y1>>
        c4 == <<o.x0, o.y1>>
    IN  \/ RectDist2(p[1], p[2], o) = 0
        \/ RectDist2(q[1], q[2], o) = 0
        \/ SegmentsIntersect(p, q, c1, c2)
        \/ SegmentsIntersect(p, q, c2, c3)
        \/ SegmentsIntersect(p, q, c3, c4)
        \/ SegmentsIntersect(p, q, c4, c1)

\* The alternative directions of move_object for the step (dx, dy): the
\* step turned by 30, -30, 60, -60, 90, -90, 120, -120 and 180 degrees,
\* with cos and sin to three places and the result cut to a tenth of an
\* inch.
alternative_directions(dx, dy) ==
    LET turn(c, sn) == << (c * dx - sn * dy) \div 1000,
                          (sn * dx + c * dy) \div 1000 >>
    IN  << turn(866, 500), turn(866, -500), turn(500, 866),
           turn(500, -866), turn(0, 1000), turn(0, -1000),
           turn(-500, 866), turn(-500, -866), turn(-1000, 0) >>

\* move_object(obj, obstacles, dx, dy, step) for the footprint of radius r
\* at the point at: the point of the returned footprint and the collision
\* flag.
move_object(at, r, obstacles, dx, dy) ==
    LET free(pt) == \A o \in obstacles :
                       ~FootprintIntersectsObstacle(pt[1], pt[2], r, o)
        alts == alternative_directions(dx, dy)
        alt_at(k) == <<at[1] + alts[k][1], at[2] + alts[k][2]>>
    IN  IF free(<<at[1] + dx, at[2] + dy>>)
        THEN [obj |-> <<at[1] + dx, at[2] + dy>>, collision |-> FALSE]
        ELSE IF \E k \in 1..Len(alts) : free(alt_at(k))
        THEN [obj |-> alt_at(CHOOSE k \in 1..Len(alts) :
                                /\ free(alt_at(k))
                                /\ \A j \in 1..(k - 1) : ~free(alt_at(j))),
              collision |-> FALSE]
        ELSE [obj |-> at, collision |-> TRUE]

\* The squared distance of the point c to the segment p-q, times the
\* squared length of the segment (times 1 for a segment of length 0).
SegDist2(c, p, q) ==
    LET vx == q[1] - p[1]
        vy == q[2] - p[2]
        wx == c[1] - p[1]
        wy == c[2] - p[2]
        dot == wx * vx + wy * vy
        len2 == Sq(vx) + Sq(vy)
    IN  IF len2 = 0 THEN Sq(wx) + Sq(wy)
        ELSE IF dot <= 0 THEN (Sq(wx) + Sq(wy)) * len2
        ELSE IF dot >= len2
        THEN (Sq(c[1] - q[1]) + Sq(c[2] - q[2])) * len2
        ELSE Sq(wx * vy - wy * vx)

\* line.simplify(tolerance) between the kept points i and j of path
\* (Douglas-Peucker): the interior points that stay.
RECURSIVE rdp(_, _, _)
rdp(path, i, j) ==
    IF j <= i + 1 THEN << >>
    ELSE LET d(k) == SegDist2(path[k], path[i], path[j])
             len2 == Sq(path[j][1] - path[i][1])
                        + Sq(path[j][2] - path[i][2])
             far == CHOOSE k \in (i + 1)..(j - 1) :
                       /\ \A m \in (i + 1)..(j - 1) : d(m) <= d(k)
                       /\ \A m \in (i + 1)..(k - 1) : d(m) < d(k)
         IN  IF d(far) > Sq(tolerance) * Max(len2, 1)
             THEN rdp(path, i, far) \o << path[far] >> \o rdp(path, far, j)
             ELSE << >>

\* list(line.simplify(tolerance).coords)
line_simplify(path) ==
    << path[1] >> \o rdp(path, 1, Len(path)) \o << path[Len(path)] >>

\* The while loop of simplify_path from the index i (counted from 1).
RECURSIVE simplify_loop(_, _, _, _)
simplify_loop(simplified, i, r, obstacles) ==
    IF ~(i < Len(simplified) - 1) THEN simplified
    ELSE LET start == simplified[i]
             end == simplified[i + 2]
             collision == \E o \in obstacles :
                             LineIntersectsObstacle(start, end, o)
         IN  IF ~collision
             THEN IF ~move_object(start, r, obstacles, end[1] - start[1],
                                  end[2] - start[2]).collision
                  THEN simplify_loop(RemoveAt(simplified, i + 1), i, r,
                                     obstacles)
                  ELSE simplify_loop(simplified, i + 1, r, obstacles)
             ELSE simplify_loop(simplified, i + 1, r, obstacles)

\* simplify_path(path, obstacles, ellipse, tolerance=0.1)
simplify_path(path, r, obstacles) ==
    simplify_loop(line_simplify(path), 1, r, obstacles)

\* Waypoints to the left of the obstacle, above and below it.
Waypoints == { <<45, 10>>, <<40, 40>>, <<45, 70>>, <<40, 10>>, <<45, 40>>,
               <<65, 70>> }

\* The longest input path.
MaxPathLen == 4

\* The paths of 3 to MaxPathLen waypoints without a repeated neighbour.
InputPaths ==
    { p \in UNION { [1..n -> Waypoints] : n \in 3..MaxPathLen } :
         \A i \in 1..(Len(p) - 1) : p[i] # p[i + 1] }

\* The footprint of radius r swept along every segment of path meets no
\* obstacle.
PathCollisionFree(path, r, obstacles) ==
    \A i \in 1..(Len(path) - 1) : \A o \in obstacles :
        ~SweptFootprintIntersects(path[i], path[i + 1], r, o)

InitSimplify ==
    /\ \E path \in InputPaths, r \in Radii :
          pure = [fn |-> "simplify_path", pc |-> "call", path |-> path,
                  r |-> r, obstacles |-> Obstacles, simplified |-> << >>]
    /\ cmp = IdleCmp
    /\ roster = IdleRoster
    /\ astar = IdleAStar
    /\ world = IdleWorld
    /\ call = IdleLast
    /\ game = IdleGame

\* simplified = simplify_path(path, obstacles, ellipse)
simplify ==
    /\ pure.fn = "simplify_path"
    /\ pure.pc = "call"
    /\ pure' = [pure EXCEPT
                  !.pc = "returned",
                  !.simplified = simplify_path(pure.path, pure.r,
                                               pure.obstacles)]
    /\ UNCHANGED <<cmp, roster, astar, world, call, game>>

NextSimplify == simplify

SpecSimplify == InitSimplify /\ [][NextSimplify]_vars

\* C17: simplify_path removes a waypoint only if the footprint swept along
\* the straight segment between its two neighbours intersects no obstacle,
\* so that for every collision-free input path the simplified path is
\* collision-free.
C17_SimplifiedPathCollisionFree ==
    (/\ pure.fn = "simplify_path"
     /\ pure.pc = "returned"
     /\ PathCollisionFree(pure.path, pure.r, pure.obstacles))
        => PathCollisionFree(pure.simplified, pure.r, pure.obstacles)

(***************************************************************************)
(* Spec: the units on the map under the deployment click of the UI         *)
(* (GameView.on_mouse_press with Map.place_unit) and Unit.move.            *)
(***************************************************************************)
\* The units of the two armies: an infantry unit of two models on 32 mm
\* bases, a vehicle of one model on a larger base, and a unit that was
\* deployed and has since lost all its models.  movement is the M
\* characteristic (6 inches).
UnitIds == {1, 2, 3}

Datasheet ==
    [u \in UnitIds |->
        IF u = 1 THEN [count |-> 2, radius |-> 6, movement |-> 60,
                       faction |-> "P1", is_aircraft |-> FALSE,
                       is_monster |-> FALSE, is_vehicle |-> FALSE]
        ELSE IF u = 2 THEN [count |-> 1, radius |-> 10, movement |-> 60,
                            faction |-> "P2", is_aircraft |-> FALSE,
                            is_monster |-> FALSE, is_vehicle |-> TRUE]
        ELSE [count |-> 0, radius |-> 6, movement |-> 60,
              faction |-> "P1", is_aircraft |-> FALSE,
              is_monster |-> FALSE, is_vehicle |-> FALSE]]

\* unit.position = None
None == << >>

\* Unit.__init__: the models stand at the origin of their Base, the unit
\* has no position and is not deployed.
NewUnit(u) ==
    [models |-> [i \in 1..Datasheet[u].count |-> Pos(0, 0, 0, 0)],
     position |-> None,
     deployed |-> FALSE,
     remained_stationary_this_round |-> FALSE,
     advanced_this_round |-> FALSE]

\* int(): truncation toward zero of a length in tenths to whole inches.
IntInches(a) == IF a >= 0 THEN a \div 10 ELSE -((-a) \div 10)

\* sum(model.get_location()[k] for model in self.models) / len(self.models)
RECURSIVE SumCoord(_, _, _)
SumCoord(positions, k, i) ==
    IF i > Len(positions) THEN 0
    ELSE positions[i][k] + SumCoord(positions, k, i + 1)

Centroid(positions) ==
    << SumCoord(positions, 1, 1) \div Len(positions),
       SumCoord(positions, 2, 1) \div Len(positions),
       SumCoord(positions, 3, 1) \div Len(positions) >>

\* Unit.get_position.
get_position(unit) ==
    IF unit.position # None THEN unit.position
    ELSE IF unit.models # << >> THEN Centroid(unit.models)
    ELSE None

\* Unit.reset_position.
reset_position(unit) ==
    IF unit.models # << >>
    THEN [unit EXCEPT !.position = Centroid(unit.models)]
    ELSE [unit EXCEPT !.position = None]

\* Map.is_position_valid(x, y) without a moving unit.
is_position_valid(w, x, y) ==
    /\ 0 <= IntInches(x) /\ IntInches(x) < MapWidth
    /\ 0 <= IntInches(y) /\ IntInches(y) < MapHeight
    /\ <<IntInches(x), IntInches(y)>> \notin w.occupied_positions

\* Map.place_unit(unit) for the unit u of the world w: the result and the
\* map afterwards.
place_unit(w, u) ==
    LET position == get_position(w.units[u])
    IN  IF position # None /\ is_position_valid(w, position[1], position[2])
        THEN [result |-> TRUE,
              world |-> [w EXCEPT
                  !.occupied_positions =
                      @ \cup { <<IntInches(position[1]), IntInches(position[2])>> },
                  !.map_units = Append(@, u)]]
        ELSE [result |-> FALSE, world |-> w]

\* The inter-unit collision policy: a unit of another faction always
\* blocks; two large (monster or vehicle) units block each other.
Blocks(u, v) ==
    \/ Datasheet[u].faction # Datasheet[v].faction
    \/ /\ Datasheet[u].is_monster \/ Datasheet[u].is_vehicle
       /\ Datasheet[v].is_monster \/ Datasheet[v].is_vehicle

\* The footprints <<x, y, r>> of the models on the map that block unit u.
OtherFootprints(w, u) ==
    { <<w.units[vi[1]].models[vi[2]][1], w.units[vi[1]].models[vi[2]][2],
        Datasheet[vi[1]].radius>> :
        vi \in { vi \in UnitIds \X (1..MaxModels) :
                         /\ vi[1] # u
                         /\ \E k \in 1..Len(w.map_units) : w.map_units[k] = vi[1]
                         /\ vi[2] <= Len(w.units[vi[1]].models)
                         /\ Blocks(u, vi[1]) } }

\* The game_map argument of the placement solver for unit u.
MapEnv(w, u) == [obstacles |-> w.obstacles, others |-> OtherFootprints(w, u)]

\* The placement solver for unit u anchored at the point start.
unit_model_positions(w, u, start) ==
    calculate_model_positions(Len(w.units[u].models), Datasheet[u].radius,
                              update_coherency(Len(w.units[u].models)),
                              start, MapEnv(w, u), << >>)

\* GameView.reset_unit_position(unit, original_unit_position,
\* original_model_positions).
reset_unit_position(unit, original_unit_position, original_model_positions) ==
    IF original_unit_position # None
    THEN [unit EXCEPT
            !.position = original_unit_position,
            !.models = [i \in 1..Len(unit.models) |->
                          IF i <= Len(original_model_positions)
                          THEN original_model_positions[i] ELSE unit.models[i]]]
    ELSE [unit EXCEPT !.position = None]

\* get_pivot_cost(unit), for the circular bases of the model; base_size is
\* the base radius and convert_mm_to_inches(32 / 2) is 0.63 inch.
get_pivot_cost(u) ==
    IF Datasheet[u].is_aircraft THEN 0
    ELSE IF (Datasheet[u].is_monster \/ Datasheet[u].is_vehicle)
            /\ 10 * Datasheet[u].radius > 63
    THEN 20
    ELSE 0

\* sum(get_dist(path[i] - path[i-1]) for i in range(1, len(path))).
RECURSIVE path_distance(_, _)
path_distance(path, i) ==
    IF i > Len(path) THEN 0
    ELSE get_dist(path[i][1] - path[i - 1][1], path[i][2] - path[i - 1][2])
           + path_distance(path, i + 1)

\* The path length recorded for a model whose a_star call returned None.
NoPath == -1

\* The loop of Unit.move over zip(self.models, potential_positions), from
\* index i.  st carries the models, the path length found for each model,
\* whether the local variable distance has been bound (a model passed both
\* checks) and whether a_star raised.
RECURSIVE move_models(_, _, _, _, _, _)
move_models(i, st, potential_positions, r, movement, obstacles) ==
    IF i > Min(Len(st.models), Len(potential_positions)) \/ st.raised THEN st
    ELSE LET destination == potential_positions[i]
             shortest_path == a_star(<<st.models[i][1], st.models[i][2]>>, r,
                                     obstacles,
                                     <<destination[1], destination[2]>>)
         IN  IF shortest_path.pc = "raised"
             THEN [st EXCEPT !.raised = TRUE]
             ELSE IF shortest_path.pc = "none"
             THEN move_models(i + 1,
                      [st EXCEPT !.path_distances = Append(@, NoPath)],
                      potential_positions, r, movement, obstacles)
             ELSE IF path_distance(shortest_path.path, 2) > movement
             THEN move_models(i + 1,
                      [st EXCEPT !.path_distances =
                          Append(@, path_distance(shortest_path.path, 2))],
                      potential_positions, r, movement, obstacles)
             ELSE move_models(i + 1,
                      [st EXCEPT !.path_distances =
                          Append(@, path_distance(shortest_path.path, 2)),
                                 !.models[i] = destination,
                                 !.distance_bound = TRUE],
                      potential_positions, r, movement, obstacles)

\* Click points on the battlefield, in tenths of an inch.
ClickPoints == { <<20, 10>>, <<20, 40>>, <<30, 40>> }

\* Destinations of Unit.move: by the upper edge of the map and next to the
\* obstacle.
MoveDestinations == { <<20, 71>>, <<45, 30>> }

\* get_roll("D6"): the least and the greatest roll.
D6 == {1, 6}

\* The destroyed unit 3 as Init finds it: deployed by a click at (2.5, 4.5)
\* and placed on the map, all models removed afterwards.
DestroyedUnit ==
    [models |-> << >>, position |-> <<25, 45, 0>>, deployed |-> TRUE,
     remained_stationary_this_round |-> FALSE,
     advanced_this_round |-> FALSE]

\* The world before the deployment of units 1 and 2, on a map with the
\* given obstacles.
NewWorld(obstacles) ==
    [units |-> [u \in UnitIds |->
                  IF Datasheet[u].count = 0 THEN DestroyedUnit
                  ELSE NewUnit(u)],
     map_units |-> << 3 >>,
     occupied_positions |-> { <<2, 4>> },
     obstacles |-> obstacles]

Init ==
    /\ \E obstacles \in {Obstacles, {}} : world = NewWorld(obstacles)
    /\ call = IdleLast
    /\ game = IdleGame
    /\ pure = IdlePure
    /\ cmp = IdleCmp
    /\ roster = IdleRoster
    /\ astar = IdleAStar

\* GameView.on_mouse_press for a left click on the battlefield at the point
\* click while the undeployed unit u is selected: the world afterwards and
\* the record of the call.  The solver is called as its signature intends,
\* for the click point on the map without seeds; line 176 as written passes
\* its arguments one place off, so that seeded_positions receives the float
\* zoom_level and the call raises before a model is touched.
mouse_press(w, u, click) ==
    LET unit == w.units[u]
        model_positions == unit_model_positions(w, u, click)
        original_unit_position ==
            IF unit.position # None THEN get_position(unit) ELSE None
        original_model_positions == unit.models
        located == [unit EXCEPT
            !.models = [i \in 1..Len(unit.models) |->
                          Pos(model_positions[i][1],
                              model_positions[i][2], 0, 0)],
            !.position = << Centroid(model_positions)[1],
                            Centroid(model_positions)[2], 0 >>]
        placing == place_unit([w EXCEPT !.units[u] = located], u)
    IN  [world |->
            IF model_positions # << >>
            THEN IF placing.result
                 THEN [placing.world EXCEPT !.units[u].deployed = TRUE]
                 ELSE [w EXCEPT !.units[u] =
                          reset_unit_position(located,
                              original_unit_position,
                              original_model_positions)]
            ELSE [w EXCEPT !.units[u] =
                     reset_unit_position(unit, original_unit_position,
                                         original_model_positions)],
         call |-> [IdleLast EXCEPT
                     !.op = "on_mouse_press", !.unit = u,
                     !.before = unit, !.destination = click,
                     !.potential_positions = model_positions,
                     !.placed = model_positions # << >> /\ placing.result,
                     !.result = "returned"]]

\* The part of Unit.move from the solver call to the end of the loop over
\* the models (lines 722-750).
move_attempt(w, u, destination) ==
    LET potential_positions == unit_model_positions(w, u, destination)
    IN  [destination |-> destination,
         potential_positions |-> potential_positions,
         st |-> move_models(1,
                    [models |-> w.units[u].models,
                     path_distances |-> << >>,
                     distance_bound |-> FALSE, raised |-> FALSE],
                    potential_positions, Datasheet[u].radius,
                    Datasheet[u].movement, w.obstacles)]

\* Unit.move(destination, game_map, advance) of unit u with the D6 that
\* get_roll returns when advancing and the attempt made for destination:
\* the world afterwards and the record of the call.
unit_move(w, u, attempt, advance, advance_roll) ==
    LET unit == w.units[u]
        st == attempt.st
        moved == [unit EXCEPT !.models = st.models]
        rec == [IdleLast EXCEPT !.op = "move", !.unit = u, !.before = unit,
                                !.destination = attempt.destination]
        tried == [rec EXCEPT
                    !.potential_positions = attempt.potential_positions,
                    !.path_distances = st.path_distances,
                    !.advance = advance,
                    !.movement_range = Datasheet[u].movement
                        + (IF advance THEN 10 * advance_roll ELSE 0)]
    IN  IF unit.models = << >> \/ get_position(unit) = None
        THEN [world |-> w, call |-> [rec EXCEPT !.result = "False"]]
        ELSE IF st.raised
        THEN [world |-> [w EXCEPT !.units[u] = moved],
              call |-> [tried EXCEPT !.result = "raised"]]
        ELSE IF ~st.distance_bound
        THEN [world |-> [w EXCEPT !.units[u] = reset_position(moved)],
              call |-> [tried EXCEPT !.result = "raised"]]
        ELSE [world |-> [w EXCEPT !.units[u] =
                           [reset_position(moved) EXCEPT
                               !.advanced_this_round = advance]],
              call |-> [tried EXCEPT !.result = "True"]]

\* A left click on the battlefield while an undeployed unit is selected.
on_mouse_press ==
    \E u \in UnitIds, click \in ClickPoints :
       /\ ~world.units[u].deployed
       /\ \E out \in {mouse_press(world, u, click)} :
             /\ world' = out.world
             /\ call' = out.call
       /\ UNCHANGED <<pure, cmp, roster, astar, game>>

\* A call of Unit.move on a deployed unit.
move ==
    \E u \in UnitIds, destination \in MoveDestinations :
       /\ world.units[u].deployed
       /\ \E attempt \in {move_attempt(world, u, destination)} :
          \E advance \in BOOLEAN, advance_roll \in D6 :
             /\ advance \/ advance_roll = 1
             /\ \E out \in {unit_move(world, u, attempt, advance,
                                      advance_roll)} :
                   /\ world' = out.world
                   /\ call' = out.call
       /\ UNCHANGED <<pure, cmp, roster, astar, game>>

Next == on_mouse_press \/ move

Spec == Init /\ [][Next]_vars

(***************************************************************************)
(* SpecGame: the turn / phase controller (Game.next_turn and               *)
(* Game.do_phase_action with Unit.do_move_action) over the two armies.     *)
(***************************************************************************)
\* BattleRoundPhases.
COMMAND_PHASE == 0
MOVEMENT_PHASE == 1
SHOOTING_PHASE == 2
CHARGE_PHASE == 3
FIGHT_PHASE == 4

\* ENGAGEMENT_RANGE, 3 inches.
ENGAGEMENT_RANGE == 30

\* The increase of the movement range that _choose_action assumes for
\* ADVANCE, 6 inches.
ChooseAdvanceRange == 60

\* Bounds: the last battle round, and the do_phase_action invocations
\* between two next_turn calls.
MaxTurn == 2
MaxPhaseActions == 2

\* Game.players, by faction, and player.get_army().units in army order.
players == << "P1", "P2" >>

army_units(faction) ==
    SelectSeq(<<1, 2, 3>>, LAMBDA u : Datasheet[u].faction = faction)

\* Game.get_current_player.
get_current_player(g) == players[g.current_player_index + 1]

\* Map.is_within_engagement_range(position, target).
is_within_engagement_range(position, target) ==
    \E i \in 1..Len(target.models) :
        DistLeq(position[1] - target.models[i][1],
                position[2] - target.models[i][2], ENGAGEMENT_RANGE)

\* Unit._get_engagement_state with Map.get_enemy_units.
in_engagement_range(w, u) ==
    \E k \in 1..Len(w.map_units) :
        /\ Datasheet[w.map_units[k]].faction # Datasheet[u].faction
        /\ is_within_engagement_range(get_position(w.units[u]),
                                      w.units[w.map_units[k]])

\* Unit._get_available_move_actions.
get_available_move_actions(w, u) ==
    IF in_engagement_range(w, u)
    THEN {"REMAIN_STATIONARY", "FALL_BACK"}
    ELSE {"REMAIN_STATIONARY", "MOVE", "ADVANCE"}

\* What the random draws of a do_move_action call can be: the action, the
\* destination, and the D6 of Unit.move when advancing.
Choices ==
    { [action |-> "REMAIN_STATIONARY", destination |-> None,
       advance_roll |-> 1] }
    \cup { [action |-> a, destination |-> d, advance_roll |-> 1] :
              a \in {"MOVE", "FALL_BACK"}, d \in MoveDestinations }
    \cup { [action |-> "ADVANCE", destination |-> d, advance_roll |-> roll] :
              d \in MoveDestinations, roll \in D6 }

\* Unit._choose_action can draw the choice c for unit u: the action is
\* available and the destination lies within the movement range of the
\* action around the unit's position.
can_choose(w, u, c) ==
    /\ c.action \in get_available_move_actions(w, u)
    /\ c.action # "REMAIN_STATIONARY" =>
          get_dist(c.destination[1] - get_position(w.units[u])[1],
                   c.destination[2] - get_position(w.units[u])[2])
             <= Datasheet[u].movement
                  + (IF c.action = "ADVANCE" THEN ChooseAdvanceRange ELSE 0)

\* Unit.do_move_action with the draws c: the world afterwards and the
\* outcome ("True", "False", or "raised" for an exception).
do_move_action(w, u, c) ==
    IF c.action = "REMAIN_STATIONARY"
    THEN [world |-> [w EXCEPT
                       !.units[u].remained_stationary_this_round = TRUE],
          result |-> "True"]
    ELSE IF c.action = "FALL_BACK"
    THEN [world |-> w, result |-> "raised"]
    ELSE LET out == unit_move(w, u, move_attempt(w, u, c.destination),
                              c.action = "ADVANCE", c.advance_roll)
         IN  [world |-> out.world, result |-> out.call.result]

\* The loop of Game.do_phase_action over the units of the current player,
\* from index k.  acc carries the world, the number of do_move_action calls
\* each unit received, whether a call raised (which ends the loop) and
\* whether the draws were possible ones.
RECURSIVE phase_moves(_, _, _, _)
phase_moves(acc, units, k, choices) ==
    IF k > Len(units) \/ acc.result = "raised" \/ ~acc.possible THEN acc
    ELSE LET u == units[k]
         IN  IF ~acc.world.units[u].deployed
             THEN phase_moves(acc, units, k + 1, choices)
             ELSE IF ~can_choose(acc.world, u, choices[u])
             THEN [acc EXCEPT !.possible = FALSE]
             ELSE LET out == do_move_action(acc.world, u, choices[u])
                  IN  phase_moves(
                         [acc EXCEPT
                            !.world = out.world,
                            !.do_move_actions[u] = @ + 1,
                            !.result = IF out.result = "raised"
                                       THEN "raised" ELSE "returned"],
                         units, k + 1, choices)

\* The world after the deployment click for unit u at the point click, or
\* the world as it is without a click.
Deployed(w, u, click) ==
    IF click = None THEN w ELSE mouse_press(w, u, click).world

\* Game.__init__ with the two players; units 1 and 2 have been deployed by
\* clicks or have been left undeployed.
InitGame ==
    /\ \E obstacles \in {Obstacles, {}},
          click1 \in {<<20, 10>>, None}, click2 \in {<<30, 40>>, None} :
          world = Deployed(Deployed(NewWorld(obstacles), 1, click1),
                           2, click2)
    /\ game = [current_player_index |-> 0, turn |-> 1,
               phase |-> COMMAND_PHASE, do_phase_actions |-> 0,
               do_move_actions |-> [u \in UnitIds |-> 0],
               result |-> "none"]
    /\ call = IdleLast
    /\ cmp = IdleCmp
    /\ roster = IdleRoster
    /\ astar = IdleAStar
    /\ pure = IdlePure

\* Game.next_turn.  The do_move_action calls are counted from here on.
next_turn ==
    LET index == (game.current_player_index + 1) % Len(players)
    IN  /\ ~(index = 0 /\ game.phase = FIGHT_PHASE /\ game.turn >= MaxTurn)
        /\ game' = [game EXCEPT
              !.current_player_index = index,
              !.turn = IF index = 0 /\ game.phase = FIGHT_PHASE
                       THEN @ + 1 ELSE @,
              !.phase = IF index # 0 THEN @
                        ELSE IF game.phase = FIGHT_PHASE THEN COMMAND_PHASE
                        ELSE @ + 1,
              !.do_phase_actions = 0,
              !.do_move_actions = [u \in UnitIds |-> 0],
              !.result = "none"]
        /\ UNCHANGED <<pure, cmp, roster, astar, world, call>>

\* Game.do_phase_action: in the movement phase every deployed unit of the
\* current player is given do_move_action, in army order; in the other
\* phases an event is published, which has no subscriber.
do_phase_action ==
    /\ game.do_phase_actions < MaxPhaseActions
    /\ IF game.phase = MOVEMENT_PHASE
       THEN \E choices \in
                  [{u \in UnitIds :
                       Datasheet[u].faction = get_current_player(game)}
                     -> Choices] :
            \E out \in {phase_moves(
                          [world |-> world,
                           do_move_actions |-> game.do_move_actions,
                           result |-> "returned", possible |-> TRUE],
                          army_units(get_current_player(game)), 1,
                          choices)} :
               /\ out.possible
               /\ world' = out.world
               /\ game' = [game EXCEPT
                             !.do_phase_actions = @ + 1,
                             !.do_move_actions = out.do_move_actions,
                             !.result = out.result]
       ELSE /\ world' = world
            /\ game' = [game EXCEPT !.do_phase_actions = @ + 1,
                                    !.result = "returned"]
    /\ UNCHANGED <<pure, cmp, roster, astar, call>>

NextGame == next_turn \/ do_phase_action

SpecGame == InitGame /\ [][NextGame]_vars

\* C9: within one movement phase of a player, once do_phase_action has been
\* invoked, every deployed unit of the current player has received exactly
\* one do_move_action call, and every undeployed unit and every unit of the
\* other player has received none, however often do_phase_action was
\* invoked since the last next_turn.
C9_OneMoveActionPerUnit ==
    (game.phase = MOVEMENT_PHASE /\ game.do_phase_actions >= 1) =>
        \A u \in UnitIds :
            game.do_move_actions[u] =
                IF /\ Datasheet[u].faction = get_current_player(game)
                   /\ world.units[u].deployed
                THEN 1 ELSE 0

(***************************************************************************)
(* SpecTurns: repeated Game.next_turn calls on a Game with P players.      *)
(* game.times_current counts, per player, how often the player has been    *)
(* the current player in the present phase.                                *)
(***************************************************************************)
MaxPlayers == 3
MaxRounds == 4

\* A mutant of Game.next_turn: the phase advances on every call.
game_next_turn_every_call(g) ==
    LET index == (g.current_player_index + 1) % g.num_players
    IN  [g EXCEPT
           !.current_player_index = index,
           !.turn = IF g.phase = FIGHT_PHASE THEN @ + 1 ELSE @,
           !.phase = IF g.phase = FIGHT_PHASE THEN COMMAND_PHASE ELSE @ + 1]

\* Game.next_turn on the game g of g.num_players players.
game_next_turn(g) ==
    LET index == (g.current_player_index + 1) % g.num_players
    IN  IF index = 0
        THEN IF g.phase = FIGHT_PHASE
             THEN [g EXCEPT !.current_player_index = index,
                            !.turn = @ + 1,
                            !.phase = COMMAND_PHASE]
             ELSE [g EXCEPT !.current_player_index = index,
                            !.phase = @ + 1]
        ELSE [g EXCEPT !.current_player_index = index]

\* Game.__init__ and add_player for each of the players.
InitTurns ==
    /\ \E P \in 1..MaxPlayers :
          game = [num_players |-> P, current_player_index |-> 0,
                  turn |-> 1, phase |-> COMMAND_PHASE,
                  times_current |-> [q \in 0..(P - 1) |->
                                       IF q = 0 THEN 1 ELSE 0]]
    /\ world = IdleWorld
    /\ call = IdleLast
    /\ cmp = IdleCmp
    /\ roster = IdleRoster
    /\ astar = IdleAStar
    /\ pure = IdlePure

\* game.next_turn()
turns_next_turn ==
    /\ game.turn <= MaxRounds
    /\ \E after \in {game_next_turn(game)} :
          game' = [after EXCEPT
                     !.times_current =
                        IF after.phase # game.phase
                        THEN [q \in DOMAIN @ |->
                                IF q = after.current_player_index
                                THEN 1 ELSE 0]
                        ELSE [@ EXCEPT ![after.current_player_index] = @ + 1]]
    /\ UNCHANGED <<pure, cmp, roster, astar, world, call>>

NextTurns == turns_next_turn

SpecTurns == InitTurns /\ [][NextTurns]_vars

\* C24: for a Game with P >= 1 players, next_turn walks the phases in the
\* cycle COMMAND, MOVEMENT, SHOOTING, CHARGE, FIGHT, COMMAND; the phase
\* changes only when current_player_index wraps to 0, so every player is
\* the current player exactly once in each phase; turn increases by
\* exactly 1 on the FIGHT to COMMAND step and at no other step.
C24_PhaseCycle ==
    /\ [](\A q \in DOMAIN game.times_current : game.times_current[q] <= 1)
    /\ [][ /\ game'.current_player_index
                 = (game.current_player_index + 1) % game.num_players
           /\ game'.phase # game.phase =>
                 /\ game'.current_player_index = 0
                 /\ game'.phase = (game.phase + 1) % (FIGHT_PHASE + 1)
                 /\ \A q \in DOMAIN game.times_current :
                       game.times_current[q] = 1
           /\ game'.current_player_index = 0 => game'.phase # game.phase
           /\ game'.turn =
                 IF game.phase = FIGHT_PHASE /\ game'.phase = COMMAND_PHASE
                 THEN game.turn + 1 ELSE game.turn ]_vars

\* The second round of a game of three players has begun.
C24_Witness ==
    /\ DOMAIN game = {"num_players", "current_player_index", "turn",
                      "phase", "times_current"}
    /\ game.num_players = 3
    /\ game.turn = 2
    /\ game.phase = COMMAND_PHASE
    /\ game.current_player_index = 0

(***************************************************************************)
(* SpecRound: the round state of one unit under initialize_round, the      *)
(* movement actions, shoot, declare_charge and charge_move.                *)
(* roster.round_state is Unit.round_state; roster.moved_fast records that  *)
(* the unit has advanced or fallen back since the last initialize_round;   *)
(* roster.op and roster.before record the last call and the round state    *)
(* and moved_fast before it; roster.charge_rolls counts the charge rolls.  *)
(***************************************************************************)
MaxCharges == 1

\* UnitRoundState()
UnitRoundState ==
    [remained_stationary_this_round |-> FALSE,
     advanced_this_round |-> FALSE,
     shot_this_round |-> FALSE,
     fell_back_this_round |-> FALSE,
     declared_charge_this_round |-> FALSE]

\* The outcomes of the body of Unit.move: it returned True, it returned
\* False, it raised.
MoveOutcomes == {"True", "False", "raised"}

\* Unit.move(destination, game_map, advance) on the round state rs, with
\* the outcome of its body: only the return of True writes the state.
round_move(rs, advance, outcome) ==
    IF outcome = "True" THEN [rs EXCEPT !.advanced_this_round = advance]
    ELSE rs

\* Unit.fall_back(destination, path, game_map)
round_fall_back(rs) == [rs EXCEPT !.fell_back_this_round = TRUE]

\* Unit.remain_stationary()
round_remain_stationary(rs) ==
    [rs EXCEPT !.remained_stationary_this_round = TRUE]

\* Unit.shoot(target_unit), with the answer of check_line_of_sight.
round_shoot(rs, line_of_sight) ==
    IF rs.advanced_this_round THEN rs
    ELSE IF rs.fell_back_this_round THEN rs
    ELSE IF line_of_sight THEN [rs EXCEPT !.shot_this_round = TRUE]
    ELSE rs

\* Unit.declare_charge(target_units)
round_declare_charge(rs) ==
    IF rs.advanced_this_round THEN rs
    ELSE IF rs.fell_back_this_round THEN rs
    ELSE [rs EXCEPT !.declared_charge_this_round = TRUE]

\* Unit.charge_move(): whether it rolls the charge distance.
round_charge_move_rolls(rs) == rs.declared_charge_this_round

\* Unit.__init__ calls initialize_round.
InitRound ==
    /\ roster = [round_state |-> UnitRoundState, moved_fast |-> FALSE,
                 op |-> "initialize_round",
                 before |-> [round_state |-> UnitRoundState,
                             moved_fast |-> FALSE],
                 charge_rolls |-> 0]
    /\ cmp = IdleCmp
    /\ astar = IdleAStar
    /\ world = IdleWorld
    /\ call = IdleLast
    /\ game = IdleGame
    /\ pure = IdlePure

\* The record of a call op that leaves the round state rs and that makes
\* the unit have moved fast if fast holds.
RoundCall(op, rs, fast) ==
    [roster EXCEPT
       !.round_state = rs,
       !.moved_fast = @ \/ fast,
       !.op = op,
       !.before = [round_state |-> roster.round_state,
                   moved_fast |-> roster.moved_fast]]

\* unit.initialize_round() (also through do_command_action)
initialize_round ==
    /\ roster' = [RoundCall("initialize_round", UnitRoundState, FALSE)
                    EXCEPT !.moved_fast = FALSE, !.charge_rolls = 0]
    /\ UNCHANGED <<pure, cmp, astar, world, call, game>>

\* unit.remain_stationary()
remain_stationary ==
    /\ roster' = RoundCall("remain_stationary",
                           round_remain_stationary(roster.round_state),
                           FALSE)
    /\ UNCHANGED <<pure, cmp, astar, world, call, game>>

\* unit.move(destination, game_map, advance) and unit.advance(...)
round_move_call ==
    /\ \E advance \in BOOLEAN, outcome \in MoveOutcomes :
          roster' = RoundCall(IF advance THEN "advance" ELSE "move",
                              round_move(roster.round_state, advance,
                                         outcome),
                              advance /\ outcome = "True")
    /\ UNCHANGED <<pure, cmp, astar, world, call, game>>

\* unit.fall_back(destination, path, game_map)
fall_back ==
    /\ roster' = RoundCall("fall_back",
                           round_fall_back(roster.round_state), TRUE)
    /\ UNCHANGED <<pure, cmp, astar, world, call, game>>

\* unit.shoot(target_unit)
shoot ==
    /\ \E line_of_sight \in BOOLEAN :
          roster' = RoundCall("shoot",
                              round_shoot(roster.round_state, line_of_sight),
                              FALSE)
    /\ UNCHANGED <<pure, cmp, astar, world, call, game>>

\* unit.declare_charge(target_units)
declare_charge ==
    /\ roster' = RoundCall("declare_charge",
                           round_declare_charge(roster.round_state), FALSE)
    /\ UNCHANGED <<pure, cmp, astar, world, call, game>>

\* unit.charge_move()
charge_move ==
    /\ roster.charge_rolls < MaxCharges
         \/ ~round_charge_move_rolls(roster.round_state)
    /\ roster' = [RoundCall("charge_move", roster.round_state, FALSE)
                    EXCEPT !.charge_rolls =
                       IF round_charge_move_rolls(roster.round_state)
                       THEN @ + 1 ELSE @]
    /\ UNCHANGED <<pure, cmp, astar, world, call, game>>

NextRound ==
    \/ initialize_round
    \/ remain_stationary
    \/ round_move_call
    \/ fall_back
    \/ shoot
    \/ declare_charge
    \/ charge_move

SpecRound == InitRound /\ [][NextRound]_vars

\* C25: within one round of a unit, once the unit has advanced or fallen
\* back, no later shoot call sets shot_this_round and no later
\* declare_charge call sets declared_charge_this_round, whatever other
\* movement actions the unit performed in between; and charge_move does
\* nothing unless a charge was declared in that round.
C25_NoShootOrChargeAfterMovingFast ==
    /\ (roster.op = "shoot" /\ roster.before.moved_fast) =>
          roster.round_state.shot_this_round
             = roster.before.round_state.shot_this_round
    /\ (roster.op = "declare_charge" /\ roster.before.moved_fast) =>
          roster.round_state.declared_charge_this_round
             = roster.before.round_state.declared_charge_this_round
    /\ roster.charge_rolls > 0 =>
          roster.round_state.declared_charge_this_round

(***************************************************************************)
(* SpecExecute: Unit._get_available_move_actions(state) and                *)
(* Unit._execute_action(action, destination, game_map).                    *)
(***************************************************************************)
\* MovementAction
REMAIN_STATIONARY == 0
MOVE == 1
ADVANCE == 2
FALL_BACK == 3

\* MovementState
IN_ENGAGEMENT_RANGE == 0
OUT_OF_ENGAGEMENT_RANGE == 1

MovementAction == {REMAIN_STATIONARY, MOVE, ADVANCE, FALL_BACK}

\* The action values passed to _execute_action: those of MovementAction
\* and one outside it.
ActionValues == MovementAction \cup {4}

\* Unit._get_available_move_actions(state)
get_available_move_actions_for(state) ==
    IF state = IN_ENGAGEMENT_RANGE
    THEN <<REMAIN_STATIONARY, FALL_BACK>>
    ELSE <<REMAIN_STATIONARY, MOVE, ADVANCE>>

\* The parameters of Unit.fall_back after self.
fall_back_parameters == <<"destination", "path", "game_map">>

\* A call of Unit.fall_back with the positional arguments args: TypeError
\* unless every parameter is bound.
call_fall_back(rs, args) ==
    IF Len(args) # Len(fall_back_parameters)
    THEN [result |-> "TypeError", round_state |-> rs]
    ELSE [result |-> "True", round_state |-> round_fall_back(rs)]

\* Unit._execute_action(action, destination, game_map) on the round state
\* rs, with the outcome of the body of Unit.move.
execute_action(action, rs, outcome) ==
    IF action = REMAIN_STATIONARY
    THEN [result |-> "True", round_state |-> round_remain_stationary(rs)]
    ELSE IF action = MOVE
    THEN [result |-> outcome, round_state |-> round_move(rs, FALSE, outcome)]
    ELSE IF action = ADVANCE
    THEN [result |-> outcome, round_state |-> round_move(rs, TRUE, outcome)]
    ELSE IF action = FALL_BACK
    THEN call_fall_back(rs, <<"destination", "game_map">>)
    ELSE [result |-> "ValueError", round_state |-> rs]

InitExecute ==
    /\ \E action \in ActionValues,
          state \in {IN_ENGAGEMENT_RANGE, OUT_OF_ENGAGEMENT_RANGE},
          rs \in [remained_stationary_this_round : BOOLEAN,
                  advanced_this_round : BOOLEAN,
                  shot_this_round : {FALSE},
                  fell_back_this_round : BOOLEAN,
                  declared_charge_this_round : {FALSE}] :
          pure = [fn |-> "_execute_action", pc |-> "call",
                  state |-> state,
                  available |-> get_available_move_actions_for(state),
                  action |-> action, round_state |-> rs,
                  result |-> "none"]
    /\ cmp = IdleCmp
    /\ roster = IdleRoster
    /\ astar = IdleAStar
    /\ world = IdleWorld
    /\ call = IdleLast
    /\ game = IdleGame

\* unit._execute_action(action, destination, game_map)
execute ==
    /\ pure.fn = "_execute_action"
    /\ pure.pc = "call"
    /\ \E outcome \in MoveOutcomes :
       \E out \in {execute_action(pure.action, pure.round_state, outcome)} :
          pure' = [pure EXCEPT
                     !.pc = "done",
                     !.round_state = out.round_state,
                     !.result = out.result]
    /\ UNCHANGED <<cmp, roster, astar, world, call, game>>

NextExecute == execute

SpecExecute == InitExecute /\ [][NextExecute]_vars

\* C26: for every action of MovementAction, the ones that
\* _get_available_move_actions returns in either engagement state,
\* _execute_action returns a boolean without raising, and FALL_BACK sets
\* fell_back_this_round; ValueError is raised only for an action outside
\* MovementAction; a unit in engagement range is offered only
\* REMAIN_STATIONARY and FALL_BACK.
C26_ExecuteActionReturns ==
    (pure.fn = "_execute_action" /\ pure.pc = "done") =>
        /\ pure.action \in MovementAction =>
              /\ pure.result \in {"True", "False"}
              /\ pure.action = FALL_BACK =>
                    pure.round_state.fell_back_this_round
        /\ pure.action \notin MovementAction => pure.result = "ValueError"
        /\ pure.state = IN_ENGAGEMENT_RANGE =>
              pure.available = <<REMAIN_STATIONARY, FALL_BACK>>

(***************************************************************************)
(* SpecStratagem: Stratagem.use(player, game_state) on one player.         *)
(* game.command_points is player.command_points; game.used records the     *)
(* last call: the command points before it, the cost, whether the          *)
(* conditions held, the value returned and how often the effect ran.       *)
(***************************************************************************)
MaxCommandPoints == 10
MaxCpCost == 4

\* A mutant of Stratagem.use: the command points are not compared with the
\* cost.
stratagem_use_unchecked(command_points, cp_cost, conditions) ==
    IF conditions
    THEN [result |-> TRUE, command_points |-> command_points - cp_cost,
          effect_runs |-> 1]
    ELSE [result |-> FALSE, command_points |-> command_points,
          effect_runs |-> 0]

\* Stratagem.use(player, game_state) for a stratagem of cost cp_cost whose
\* conditions return the value conditions.
stratagem_use(command_points, cp_cost, conditions) ==
    IF command_points >= cp_cost /\ conditions
    THEN [result |-> TRUE, command_points |-> command_points - cp_cost,
          effect_runs |-> 1]
    ELSE [result |-> FALSE, command_points |-> command_points,
          effect_runs |-> 0]

NoUse == [before |-> 0, cp_cost |-> 0, conditions |-> FALSE,
          result |-> FALSE, effect_runs |-> 0, called |-> FALSE]

\* Game.add_player: the player starts with the command points of the
\* battlefield size.
InitStratagem ==
    /\ \E starting \in 0..MaxCommandPoints :
          game = [command_points |-> starting, used |-> NoUse]
    /\ world = IdleWorld
    /\ call = IdleLast
    /\ cmp = IdleCmp
    /\ roster = IdleRoster
    /\ astar = IdleAStar
    /\ pure = IdlePure

\* stratagem.use(player, game_state)
use ==
    /\ \E cp_cost \in 0..MaxCpCost, conditions \in BOOLEAN :
       \E out \in {stratagem_use(game.command_points, cp_cost, conditions)} :
          game' = [command_points |-> out.command_points,
                   used |-> [before |-> game.command_points,
                             cp_cost |-> cp_cost,
                             conditions |-> conditions,
                             result |-> out.result,
                             effect_runs |-> out.effect_runs,
                             called |-> TRUE]]
    /\ UNCHANGED <<pure, cmp, roster, astar, world, call>>

NextStratagem == use

SpecStratagem == InitStratagem /\ [][NextStratagem]_vars

\* C27: Stratagem.use returns True, deducts exactly cp_cost and runs the
\* effect exactly once when command_points >= cp_cost and the conditions
\* hold; otherwise it returns False, leaves command_points unchanged and
\* does not run the effect; command_points is never negative.
C27_StratagemUse ==
    /\ game.command_points >= 0
    /\ game.used.called =>
          IF game.used.before >= game.used.cp_cost /\ game.used.conditions
          THEN /\ game.used.result
               /\ game.command_points = game.used.before - game.used.cp_cost
               /\ game.used.effect_runs = 1
          ELSE /\ ~game.used.result
               /\ game.command_points = game.used.before
               /\ game.used.effect_runs = 0

\* A use that was refused for want of command points although the
\* conditions held.
C27_Witness ==
    /\ DOMAIN game = {"command_points", "used"}
    /\ game.used.called
    /\ game.used.conditions
    /\ game.used.before < game.used.cp_cost
    /\ ~game.used.result

(***************************************************************************)
(* SpecGrid: the battlefield grid of Game (place_unit, get_unit_at,        *)
(* move_unit).  game.battlefield[x][y] is a unit or None; game.moved       *)
(* records the last move_unit call.                                        *)
(***************************************************************************)
GridHeight == 2
GridWidth == 2
NoUnit == 0
GridUnits == {1, 2}

\* battlefield_size = (Height, Width)
battlefield_size == <<GridHeight, GridWidth>>

GridCells == (0..(GridHeight - 1)) \X (0..(GridWidth - 1))

\* Positions passed by a caller, in and out of range.
GridPositions == ((-1)..GridHeight) \X ((-1)..GridWidth)

\* Game._initialize_battlefield
initialize_battlefield == [cell \in GridCells |-> NoUnit]

in_battlefield(position) ==
    /\ 0 <= position[1] /\ position[1] < battlefield_size[1]
    /\ 0 <= position[2] /\ position[2] < battlefield_size[2]

\* Game.place_unit(unit, position)
game_place_unit(battlefield, unit, position) ==
    IF in_battlefield(position)
    THEN [raised |-> FALSE,
          battlefield |-> [battlefield EXCEPT ![position] = unit]]
    ELSE [raised |-> TRUE, battlefield |-> battlefield]

\* Game.get_unit_at(position)
game_get_unit_at(battlefield, position) ==
    IF in_battlefield(position)
    THEN [raised |-> FALSE, unit |-> battlefield[position]]
    ELSE [raised |-> TRUE, unit |-> NoUnit]

\* Game.move_unit(from_pos, to_pos)
game_move_unit(battlefield, from_pos, to_pos) ==
    LET found == game_get_unit_at(battlefield, from_pos)
        placed == game_place_unit(battlefield, found.unit, to_pos)
    IN  IF found.raised
        THEN [raised |-> TRUE, battlefield |-> battlefield]
        ELSE IF found.unit # NoUnit
             THEN IF placed.raised
                  THEN [raised |-> TRUE, battlefield |-> battlefield]
                  ELSE [raised |-> FALSE,
                        battlefield |->
                            [placed.battlefield EXCEPT ![from_pos] = NoUnit]]
             ELSE [raised |-> TRUE, battlefield |-> battlefield]

NoGridMove == [called |-> FALSE, raised |-> FALSE, from_pos |-> <<0, 0>>,
               to_pos |-> <<0, 0>>, before |-> initialize_battlefield]

InitGrid ==
    /\ game = [battlefield |-> initialize_battlefield, moved |-> NoGridMove]
    /\ world = IdleWorld
    /\ call = IdleLast
    /\ cmp = IdleCmp
    /\ roster = IdleRoster
    /\ astar = IdleAStar
    /\ pure = IdlePure

\* game.place_unit(unit, position); a ValueError leaves the grid as it was.
grid_place_unit ==
    /\ \E unit \in GridUnits, position \in GridPositions :
       \E out \in {game_place_unit(game.battlefield, unit, position)} :
          game' = [battlefield |-> out.battlefield, moved |-> NoGridMove]
    /\ UNCHANGED <<pure, cmp, roster, astar, world, call>>

\* game.move_unit(from_pos, to_pos)
grid_move_unit ==
    /\ \E from_pos \in GridPositions, to_pos \in GridPositions :
       \E out \in {game_move_unit(game.battlefield, from_pos, to_pos)} :
          game' = [battlefield |-> out.battlefield,
                   moved |-> [called |-> TRUE, raised |-> out.raised,
                              from_pos |-> from_pos, to_pos |-> to_pos,
                              before |-> game.battlefield]]
    /\ UNCHANGED <<pure, cmp, roster, astar, world, call>>

NextGrid == grid_place_unit \/ grid_move_unit

SpecGrid == InitGrid /\ [][NextGrid]_vars

UnitsOn(battlefield) ==
    {battlefield[cell] : cell \in GridCells} \ {NoUnit}

\* C28: after a move_unit call that does not raise, the moved unit is at
\* to_pos and every unit that was on the grid before the call is still on
\* it; after a call that raises ValueError the grid is unchanged.
C28_MoveUnitConservesUnits ==
    game.moved.called =>
        IF game.moved.raised
        THEN game.battlefield = game.moved.before
        ELSE /\ game.battlefield[game.moved.to_pos]
                    = game.moved.before[game.moved.from_pos]
             /\ UnitsOn(game.moved.before) \subseteq UnitsOn(game.battlefield)

(***************************************************************************)
(* Claims about Unit.move and the deployment click (checked under Spec).   *)
(***************************************************************************)
\* The unit of the last call, as it is now.
CalledUnit == world.units[call.unit]

\* C1: Unit.move is all-or-nothing: after a call either it returned True
\* and every model stands at the position the solver assigned to it, or it
\* returned False and every model's (x, y, z, facing) and the unit's
\* position are what they were before the call.
C1_MoveAllOrNothing ==
    call.op = "move" =>
        \/ /\ call.result = "True"
           /\ Len(call.potential_positions) = Len(CalledUnit.models)
           /\ \A i \in 1..Len(CalledUnit.models) :
                 CalledUnit.models[i] = call.potential_positions[i]
        \/ /\ call.result = "False"
           /\ CalledUnit.models = call.before.models
           /\ CalledUnit.position = call.before.position

\* C2: a deployment click is atomic: when the solver returned the empty
\* result or Map.place_unit returned False, every model's location and
\* facing are those from before the click, the unit is not deployed and it
\* is not in Map.units.
C2_DeploymentClickAtomic ==
    (call.op = "on_mouse_press" /\ ~call.placed) =>
        /\ CalledUnit.models = call.before.models
        /\ ~CalledUnit.deployed
        /\ \A k \in 1..Len(world.map_units) : world.map_units[k] # call.unit

\* The move of the last call is legal: the solver returned a complete
\* configuration, every model has a path, and the pivot cost plus the
\* longest path distance is within the movement budget.
MoveIsLegal ==
    /\ call.before.models # << >>
    /\ Len(call.potential_positions) = Len(call.before.models)
    /\ Len(call.path_distances) = Len(call.before.models)
    /\ \A i \in 1..Len(call.path_distances) :
          /\ call.path_distances[i] # NoPath
          /\ get_pivot_cost(call.unit) + call.path_distances[i]
                <= call.movement_range

\* C3: Unit.move returns True if and only if the move is legal, and False
\* in every other case.
C3_MoveReturnsTrueIffLegal ==
    call.op = "move" =>
        IF MoveIsLegal THEN call.result = "True" ELSE call.result = "False"

\* C8: in every reachable state every model of every unit in Map.units has
\* its footprint inside the map boundary, clear of the obstacles and clear
\* of the footprints of the units that block its unit.
C8_DeployedFootprintsLegal ==
    \A k \in 1..Len(world.map_units) :
        LET u == world.map_units[k]
        IN  \A i \in 1..Len(world.units[u].models) :
               LET m == world.units[u].models[i]
               IN  /\ is_within_boundary(m[1], m[2], Datasheet[u].radius)
                   /\ ~check_collision_with_obstacles(
                          m[1], m[2], Datasheet[u].radius, world.obstacles)
                   /\ ~check_collision_with_other_units(
                          m[1], m[2], Datasheet[u].radius,
                          OtherFootprints(world, u))

\* The integer cell (int(x), int(y)) of the current position of unit u.
UnitCell(u) ==
    << IntInches(get_position(world.units[u])[1]),
       IntInches(get_position(world.units[u])[2]) >>

\* C29: Map.occupied_positions is the set of the cells of the current
\* positions of the units in Map.units, no unit is in Map.units twice, and
\* every recorded unit position is inside the map.
C29_OccupiedPositionsTrackUnits ==
    /\ world.occupied_positions =
          { UnitCell(world.map_units[k]) : k \in 1..Len(world.map_units) }
    /\ \A j, k \in 1..Len(world.map_units) :
          world.map_units[j] = world.map_units[k] => j = k
    /\ \A k \in 1..Len(world.map_units) :
          LET position == get_position(world.units[world.map_units[k]])
          IN  /\ 0 <= position[1] /\ position[1] < 10 * MapWidth
              /\ 0 <= position[2] /\ position[2] < 10 * MapHeight

\* get_angle(x_delta, y_delta) = atan2(x_delta, y_delta) is 0.0: the
\* direction is straight along +y, or the two points coincide.
get_angle_is_zero(x_delta, y_delta) == x_delta = 0 /\ y_delta >= 0

\* The last call committed a configuration of the solver: a deployment
\* click that placed the unit, or a move that returned True with every
\* model at its assigned position.
Committed ==
    /\ \/ call.op = "on_mouse_press" /\ call.placed
       \/ call.op = "move" /\ call.result = "True"
    /\ Len(call.potential_positions) = Len(CalledUnit.models)
    /\ \A i \in 1..Len(CalledUnit.models) :
          /\ CalledUnit.models[i][1] = call.potential_positions[i][1]
          /\ CalledUnit.models[i][2] = call.potential_positions[i][2]

\* C23: in every configuration produced by calculate_model_positions and
\* committed by Unit.move or by deployment, each model's facing equals the
\* bearing from that model toward the destination / anchor point; so a
\* model's facing is 0 exactly when that bearing is 0.
C23_FacingTowardDestination ==
    Committed =>
        \A i \in 1..Len(CalledUnit.models) :
            (CalledUnit.models[i][4] = 0) <=>
                get_angle_is_zero(
                    call.destination[1] - CalledUnit.models[i][1],
                    call.destination[2] - CalledUnit.models[i][2])

(***************************************************************************)
(* SpecOpenField: deployment clicks and Unit.move on a map whose obstacle  *)
(* list is empty.                                                          *)
(***************************************************************************)
\* Destinations on the open field: 6 inches straight up and 6 inches
\* straight to the right of the click point (2.0, 1.0), and a point nearer
\* by.
OpenFieldDestinations == { <<20, 70>>, <<80, 10>>, <<20, 40>> }

InitOpenField ==
    /\ world = NewWorld({})
    /\ call = IdleLast
    /\ game = IdleGame
    /\ pure = IdlePure
    /\ cmp = IdleCmp
    /\ roster = IdleRoster
    /\ astar = IdleAStar

\* A call of Unit.move on a deployed unit on the open field.
move_open_field ==
    \E u \in UnitIds, destination \in OpenFieldDestinations :
       /\ world.units[u].deployed
       /\ \E attempt \in {move_attempt(world, u, destination)} :
          \E advance \in BOOLEAN, advance_roll \in D6 :
             /\ advance \/ advance_roll = 1
             /\ \E out \in {unit_move(world, u, attempt, advance,
                                      advance_roll)} :
                   /\ world' = out.world
                   /\ call' = out.call
       /\ UNCHANGED <<pure, cmp, roster, astar, game>>

NextOpenField == on_mouse_press \/ move_open_field

SpecOpenField == InitOpenField /\ [][NextOpenField]_vars

\* The last call was Unit.move without Advance of a single-model unit with
\* movement 6, on a map without obstacles, to a point exactly 6 inches in
\* a straight line from where its model stood.
OpenFieldMove ==
    /\ call.op = "move"
    /\ ~call.advance
    /\ world.obstacles = {}
    /\ Len(call.before.models) = 1
    /\ Datasheet[call.unit].movement = 60
    /\ Sq(call.destination[1] - call.before.models[1][1])
         + Sq(call.destination[2] - call.before.models[1][2]) = Sq(60)

\* C15: a single-model unit with a circular base and movement 6, on a map
\* with an empty obstacle list, asked to move to a point exactly 6 inches
\* away in a straight line: Unit.move returns True without raising and the
\* base ends exactly at the requested destination.
C15_OpenFieldMoveSucceeds ==
    OpenFieldMove =>
        /\ call.result = "True"
        /\ CalledUnit.models[1][1] = call.destination[1]
        /\ CalledUnit.models[1][2] = call.destination[2]

====
